---------------------------- MODULE Spec2Model ----------------------------
(***************************************************************************)
(* A model of the parcel-flow workflow engine (src/workflow_engine.py),    *)
(* of the node contract (src/base_node.py) and of the node classes the     *)
(* engine is run with (src/nodes.py and the node classes of src/tests).    *)
(*                                                                         *)
(* Representation choices                                                  *)
(*  - A parcel name is a Python string.  The engine only ever looks at a   *)
(*    name as  base  or  base[text] , so a name is the record              *)
(*    [base, ix]: ix = NoIx for a plain name, otherwise the text between   *)
(*    the brackets.  Formatting an index (f"{base}[{i}]") and parsing one  *)
(*    (int(text)) are separate operators, IntToStr and ParseInt.           *)
(*  - Optional[T] is a sequence of length <= 1: None is << >>, a present   *)
(*    value x is <<x>>.                                                    *)
(*  - A dict returned by a node's run is the sequence of its (name, value) *)
(*    items in insertion order.  The store self.parcels is a function from *)
(*    its keys to Parcel records.                                          *)
(*  - Parcel.timestamp (time.time()) is not modelled: nothing in the       *)
(*    engine reads it.                                                     *)
(***************************************************************************)
EXTENDS Integers, Sequences, FiniteSets, TLC

VARIABLES
    pc,             \* position of execute_workflow: idle, while, for, exit, done
    nodes,          \* the nodes argument of the call
    initial_data,   \* the initial_data argument of the call
    parcels,        \* self.parcels
    execution_log,  \* self.execution_log
    iteration,      \* local iteration
    nodes_ran,      \* local nodes_ran
    pos,            \* position of the  for node in nodes  loop (1-based)
    returned        \* what the caller holds: the value the last finished call
                    \* returned (for execute_workflow, the dict object that
                    \* self.parcels named during that call), None before

vars == <<pc, nodes, initial_data, parcels, execution_log, iteration, nodes_ran, pos,
          returned>>

(***************************************************************************)
(* Bounds of the model                                                     *)
(***************************************************************************)
MaxItems == 3          \* longest seeded list / largest seeded family
MaxChain == 3          \* longest of the short reversed chains

(***************************************************************************)
(* Program constants                                                       *)
(***************************************************************************)
max_iterations == 100

(***************************************************************************)
(* Optional values, names                                                  *)
(***************************************************************************)
None == << >>
Some(x) == <<x>>

NoIx == ""

Digit(d) ==
    CASE d = 0 -> "0" [] d = 1 -> "1" [] d = 2 -> "2" [] d = 3 -> "3"
      [] d = 4 -> "4" [] d = 5 -> "5" [] d = 6 -> "6" [] d = 7 -> "7"
      [] d = 8 -> "8" [] d = 9 -> "9"

RECURSIVE IntToStr(_)
\* str(i) of a Python int, as the f-strings  f"{x}[{i}]"  format it
IntToStr(i) ==
    IF i < 0 THEN "-" \o IntToStr(-i)
    ELSE IF i < 10 THEN Digit(i)
    ELSE IntToStr(i \div 10) \o Digit(i % 10)

\* the integers whose decimal text can occur between brackets in the model
ParseRange == (0 - 1) .. (MaxItems + 11)

\* texts int() accepts although str() never produces them
NonCanonical == [t \in {"01", "+1"} |-> 1]

\* the decimal text of each of them
Canonical == [i \in ParseRange |-> IntToStr(i)]

\* int(text): Some(i), or None where Python raises ValueError
ParseInt(text) ==
    IF \E i \in ParseRange : Canonical[i] = text
    THEN Some(CHOOSE i \in ParseRange : Canonical[i] = text)
    ELSE IF text \in DOMAIN NonCanonical THEN Some(NonCanonical[text])
    ELSE None

Plain(base) == [base |-> base, ix |-> NoIx]
\* f"{base}[{i}]"
Indexed(base, i) == [base |-> base, ix |-> IntToStr(i)]
\* a name with arbitrary text between the brackets
Bracketed(base, text) == [base |-> base, ix |-> text]

\* '[' not in name
IsPlain(name) == name.ix = NoIx

\* name.startswith(f"{required}[") and name.endswith("]")
IsIndexedOf(name, required) ==
    IsPlain(required) /\ name.base = required.base /\ ~IsPlain(name)

\* f"{output}[{index}]" in parcels
HasIndexed(output, index, store) ==
    IsPlain(output) /\ Indexed(output.base, index) \in DOMAIN store

(***************************************************************************)
(* Sequences                                                               *)
(***************************************************************************)
Range(s) == {s[k] : k \in DOMAIN s}

\* sorted(list(S)) for a finite set of integers
SortedSeq(S) ==
    [k \in 1 .. Cardinality(S) |->
        CHOOSE x \in S : Cardinality({y \in S : y < x}) = k - 1]

\* all orderings of a finite set
Perms(S) ==
    {s \in [1 .. Cardinality(S) -> S] : \A x \in S : \E k \in DOMAIN s : s[k] = x}


(***************************************************************************)
(* Python values carried by parcels                                        *)
(***************************************************************************)
Str(s) == [t |-> "str", s |-> s]
List(items) == [t |-> "list", items |-> items]
PyNone == [t |-> "none"]
\* the metadata dict built by ArraySpreadNode.run
MetaDict(length, items, prefix) ==
    [t |-> "dict", length |-> length, items |-> items, output_prefix |-> prefix]
\* the dict a node's failure is turned into (its "timestamp" entry is left out)
ErrorDict(message, node_id) ==
    [t |-> "dict", error |-> message, node_id |-> node_id]
ResponseDict(data) == [t |-> "dict", status |-> "success", data |-> data]

UpperTable ==
    [c \in {"a", "b", "c", "d", "A", "B", "C", "D", "hello", "HELLO",
            "Initial request received", "INITIAL REQUEST RECEIVED"} |->
        CASE c \in {"a", "A"} -> "A" [] c \in {"b", "B"} -> "B"
          [] c \in {"c", "C"} -> "C" [] c \in {"d", "D"} -> "D"
          [] c \in {"hello", "HELLO"} -> "HELLO"
          [] OTHER -> "INITIAL REQUEST RECEIVED"]
\* s.upper() for the strings of the model
Upper(s) == IF s \in DOMAIN UpperTable THEN UpperTable[s] ELSE s

\* for index i of the seeded lists, the item "a", "b", "c", "d", "a", ...
ItemAt(i) == CASE i % 4 = 0 -> "a" [] i % 4 = 1 -> "b" [] i % 4 = 2 -> "c" [] OTHER -> "d"

(***************************************************************************)
(* Parcel (src/parcel.py)                                                  *)
(***************************************************************************)
Parcel(name, value, node_id) == [name |-> name, value |-> value, node_id |-> node_id]

(***************************************************************************)
(* The result of a node's run: the dict it returns, or the exception       *)
(***************************************************************************)
Returns(items) == [ok |-> TRUE, items |-> items, error |-> ""]
Raises(message) == [ok |-> FALSE, items |-> << >>, error |-> message]
Item(name, value) == [name |-> name, value |-> value]

(***************************************************************************)
(* BaseNode and the node classes                                           *)
(***************************************************************************)
BaseNode(cls, node_id, requires, outputs) ==
    [cls |-> cls, node_id |-> node_id, requires |-> requires, outputs |-> outputs]

SimpleNode(node_id, input_name, output_name) ==
    [cls |-> "SimpleNode", node_id |-> node_id,
     requires |-> <<Plain(input_name)>>, outputs |-> <<Plain(output_name)>>,
     input_name |-> input_name, output_name |-> output_name]

MultiInputNode ==
    BaseNode("MultiInputNode", "multi", <<Plain("a"), Plain("b")>>, <<Plain("result")>>)

FailingNode ==
    BaseNode("FailingNode", "failing", <<Plain("input")>>, <<Plain("output")>>)

RequestNode(node_id) ==
    BaseNode("RequestNode", node_id, << >>, <<Plain("request_data")>>)

ArraySpreadNode(node_id, input_parcel, output_prefix) ==
    [cls |-> "ArraySpreadNode", node_id |-> node_id,
     requires |-> <<Plain(input_parcel)>>,
     outputs |-> <<Plain(output_prefix \o "_meta")>>,
     input_parcel |-> input_parcel, output_prefix |-> output_prefix]

ProcessItemNode(node_id, input_prefix, output_prefix) ==
    [cls |-> "ProcessItemNode", node_id |-> node_id,
     requires |-> <<Plain(input_prefix)>>, outputs |-> <<Plain(output_prefix)>>,
     input_prefix |-> input_prefix, output_prefix |-> output_prefix]

CollectNode(node_id, input_prefix, output_name, meta_parcel) ==
    [cls |-> "CollectNode", node_id |-> node_id,
     requires |-> <<Plain(meta_parcel)>>, outputs |-> <<Plain(output_name)>>,
     input_prefix |-> input_prefix, output_name |-> output_name,
     meta_parcel |-> meta_parcel]

ResponseNode(node_id, input_parcel) ==
    [cls |-> "ResponseNode", node_id |-> node_id,
     requires |-> <<Plain(input_parcel)>>, outputs |-> <<Plain("response")>>,
     input_parcel |-> input_parcel]

\* TestNode(node_id, requires, outputs) of src/tests/test_base_node.py
TestNodeWith(node_id, requires, outputs) == BaseNode("TestNode", node_id, requires, outputs)

\* str(node)
NodeStr(node) == <<node.cls, node.node_id>>

\* BaseNode.can_run
BaseCanRun(node, store) ==
    \A k \in DOMAIN node.requires : node.requires[k] \in DOMAIN store

\* BaseNode.get_required_parcels (its keys)
GetRequiredParcels(node, store) ==
    {node.requires[k] : k \in {j \in DOMAIN node.requires : node.requires[j] \in DOMAIN store}}

\* metadata.get("length", 0)
GetLength(metadata) == IF "length" \in DOMAIN metadata THEN metadata.length ELSE 0

\* CollectNode.can_run
CollectCanRun(node, store) ==
    IF ~BaseCanRun(node, store) THEN FALSE
    ELSE IF node.requires[1] \notin DOMAIN store THEN FALSE
    ELSE LET metadata == store[node.requires[1]].value
             expected_length == GetLength(metadata)
         IN  \A i \in 0 .. (expected_length - 1) :
                 Indexed(node.input_prefix, i) \in DOMAIN store

\* node.can_run(parcels), dispatched on the node's class
CanRun(node, store) ==
    IF node.cls = "CollectNode" THEN CollectCanRun(node, store)
    ELSE BaseCanRun(node, store)

(***************************************************************************)
(* run of each node class: run(parcels, index)                             *)
(***************************************************************************)
\* SimpleNode.run (src/tests/test_workflow_engine.py)
SimpleRun(node, store, index) ==
    LET input_key == IF index # None THEN Indexed(node.input_name, index[1])
                     ELSE Plain(node.input_name)
        out_key == IF index # None THEN Indexed(node.output_name, index[1])
                   ELSE Plain(node.output_name)
    IN  IF input_key \notin DOMAIN store THEN Raises("KeyError")
        ELSE IF store[input_key].value.t # "str" THEN Raises("AttributeError")
        ELSE Returns(<<Item(out_key, Str(Upper(store[input_key].value.s)))>>)

\* MultiInputNode.run (src/tests/test_workflow_engine.py)
MultiInputRun(node, store, index) ==
    IF Plain("a") \notin DOMAIN store \/ Plain("b") \notin DOMAIN store
    THEN Raises("KeyError")
    ELSE LET a_val == store[Plain("a")].value
             b_val == store[Plain("b")].value
         IN  IF a_val.t = "str" /\ b_val.t = "str"
             THEN Returns(<<Item(Plain("result"), Str(a_val.s \o "+" \o b_val.s))>>)
             ELSE Returns(<<Item(Plain("result"), Str("<object>+<object>"))>>)

\* FailingNode.run (src/tests/test_base_node.py)
FailingRun(node, store, index) == Raises("Test error")

\* TestNode.run (src/tests/test_base_node.py): the name "output", whatever the
\* declared outputs and the index are
TestRun(node, store, index) ==
    IF Plain("input") \in DOMAIN store
    THEN IF store[Plain("input")].value.t # "str" THEN Raises("AttributeError")
         ELSE Returns(<<Item(Plain("output"), Str(Upper(store[Plain("input")].value.s)))>>)
    ELSE Returns(<<Item(Plain("output"), Str("default"))>>)

\* RequestNode.run
RequestRun(node, store, index) ==
    Returns(<<Item(Plain("request_data"), Str("Initial request received"))>>)

\* faulty variant of ArraySpreadNode.run: an empty list yields no item at all
ArraySpreadRun_empty_skipped(node, store, index) ==
    IF Plain(node.input_parcel) \notin DOMAIN store THEN Raises("KeyError")
    ELSE LET input_data == store[Plain(node.input_parcel)].value IN
         IF input_data.t # "list" THEN Raises("must be a list")
         ELSE LET n == Len(input_data.items) IN
              IF n = 0 THEN Returns(<< >>)
              ELSE Returns([k \in 1 .. n + 1 |->
                  IF k <= n
                  THEN Item(Indexed(node.output_prefix, k - 1), input_data.items[k])
                  ELSE Item(Plain(node.output_prefix \o "_meta"),
                            MetaDict(n, input_data.items, node.output_prefix))])

\* ArraySpreadNode.run
ArraySpreadRun(node, store, index) ==
    IF Plain(node.input_parcel) \notin DOMAIN store THEN Raises("KeyError")
    ELSE LET input_data == store[Plain(node.input_parcel)].value IN
         IF input_data.t # "list" THEN Raises("must be a list")
         ELSE LET n == Len(input_data.items) IN
              Returns([k \in 1 .. n + 1 |->
                  IF k <= n
                  THEN Item(Indexed(node.output_prefix, k - 1), input_data.items[k])
                  ELSE Item(Plain(node.output_prefix \o "_meta"),
                            MetaDict(n, input_data.items, node.output_prefix))])

\* ProcessItemNode._process_item
ProcessItem(item) ==
    IF item.t = "str" THEN Str("PROCESSED: " \o Upper(item.s))
    ELSE Str("PROCESSED: <object>")

\* faulty variant of ProcessItemNode.run: a missing index or a missing unit
\* is answered with a default output instead of an exception
ProcessItemRun_lenient(node, store, index) ==
    IF index = None
    THEN Returns(<<Item(Plain(node.output_prefix), Str("PROCESSED: <object>"))>>)
    ELSE LET parcel_name == Indexed(node.input_prefix, index[1]) IN
         IF parcel_name \notin DOMAIN store
         THEN Returns(<<Item(Indexed(node.output_prefix, index[1]),
                             Str("PROCESSED: <object>"))>>)
         ELSE Returns(<<Item(Indexed(node.output_prefix, index[1]),
                             ProcessItem(store[parcel_name].value))>>)

\* ProcessItemNode.run
ProcessItemRun(node, store, index) ==
    IF index = None THEN Raises("ProcessItemNode requires an index to run")
    ELSE LET parcel_name == Indexed(node.input_prefix, index[1]) IN
         IF parcel_name \notin DOMAIN store THEN Raises("Expected parcel not found")
         ELSE Returns(<<Item(Indexed(node.output_prefix, index[1]),
                             ProcessItem(store[parcel_name].value))>>)

RECURSIVE CollectFrom(_, _, _, _)
\* the loop of CollectNode.run: the values of prefix[i], ..., prefix[n-1] that exist
CollectFrom(store, prefix, i, n) ==
    IF i >= n THEN << >>
    ELSE (IF Indexed(prefix, i) \in DOMAIN store
          THEN <<store[Indexed(prefix, i)].value>> ELSE << >>)
         \o CollectFrom(store, prefix, i + 1, n)

\* faulty variant of CollectNode.run: the units are gathered in the order of
\* their names as strings ("num[10]" before "num[2]")
CollectRun_lexicographic(node, store, index) ==
    IF node.requires[1] \notin DOMAIN store THEN Raises("KeyError")
    ELSE LET metadata == store[node.requires[1]].value IN
         IF metadata.t # "dict" THEN Raises("AttributeError")
         ELSE LET present == {i \in 0 .. (GetLength(metadata) - 1) :
                                 Indexed(node.input_prefix, i) \in DOMAIN store}
                  TextKey(i) == IF i < 10 THEN 11 * i ELSE 11 * (i \div 10) + (i % 10) + 1
                  ByText == [k \in 1 .. Cardinality(present) |->
                                CHOOSE i \in present :
                                    Cardinality({j \in present : TextKey(j) < TextKey(i)}) = k - 1]
              IN  Returns(<<Item(Plain(node.output_name),
                       List([k \in DOMAIN ByText |->
                                store[Indexed(node.input_prefix, ByText[k])].value]))>>)

\* CollectNode.run
CollectRun(node, store, index) ==
    IF node.requires[1] \notin DOMAIN store THEN Raises("KeyError")
    ELSE LET metadata == store[node.requires[1]].value IN
         IF metadata.t # "dict" THEN Raises("AttributeError")
         ELSE Returns(<<Item(Plain(node.output_name),
                  List(CollectFrom(store, node.input_prefix, 0, GetLength(metadata))))>>)

\* ResponseNode.run
ResponseRun(node, store, index) ==
    IF Plain(node.input_parcel) \notin DOMAIN store THEN Raises("KeyError")
    ELSE Returns(<<Item(Plain("response"),
                        ResponseDict(store[Plain(node.input_parcel)].value))>>)

\* node.run(parcels, index), dispatched on the node's class
Run(node, store, index) ==
    CASE node.cls = "SimpleNode"      -> SimpleRun(node, store, index)
      [] node.cls = "MultiInputNode"  -> MultiInputRun(node, store, index)
      [] node.cls = "FailingNode"     -> FailingRun(node, store, index)
      [] node.cls = "RequestNode"     -> RequestRun(node, store, index)
      [] node.cls = "ArraySpreadNode" -> ArraySpreadRun(node, store, index)
      [] node.cls = "ProcessItemNode" -> ProcessItemRun(node, store, index)
      [] node.cls = "CollectNode"     -> CollectRun(node, store, index)
      [] node.cls = "ResponseNode"    -> ResponseRun(node, store, index)
      [] node.cls = "TestNode"        -> TestRun(node, store, index)

\* f"error_{self.node_id}"
ErrorName(node) == Plain("error_" \o node.node_id)

\* faulty variant of run_safe: a run that raises is swallowed, nothing is emitted
run_safe_swallow(node, store, index) ==
    LET r == Run(node, store, index) IN
    IF r.ok THEN r.items ELSE << >>

\* faulty variant of run_safe: the name of the error unit carries the index
run_safe_indexed_error(node, store, index) ==
    LET r == Run(node, store, index) IN
    IF r.ok THEN r.items
    ELSE <<Item(IF index # None THEN Indexed("error_" \o node.node_id, index[1])
                ELSE ErrorName(node),
                ErrorDict(r.error, node.node_id))>>

\* BaseNode.run_safe: the items of the dict it returns
run_safe(node, store, index) ==
    LET r == Run(node, store, index) IN
    IF r.ok THEN r.items
    ELSE <<Item(ErrorName(node), ErrorDict(r.error, node.node_id))>>

(***************************************************************************)
(* Entries of the execution log                                            *)
(***************************************************************************)
LogStarting(n) == [t |-> "starting", n |-> n]
LogInitial(names) == [t |-> "initial", names |-> names]
LogIteration(k) == [t |-> "iteration", n |-> k]
LogRunning(node, index) == [t |-> "running", node |-> NodeStr(node), index |-> index]
LogInput(names) == [t |-> "input", names |-> names]
LogCreated(parcel) == [t |-> "created", name |-> parcel.name, value |-> parcel.value]
LogComplete == [t |-> "complete"]
LogMaxIterations == [t |-> "max_iterations"]

(***************************************************************************)
(* WorkflowEngine                                                          *)
(***************************************************************************)
\* faulty variant of _can_node_run: the requirements are not looked at
_can_node_run_unrequired(node, store) ==
    ~ \E k \in DOMAIN node.outputs :
          IsPlain(node.outputs[k]) /\ node.outputs[k] \in DOMAIN store

\* faulty variant of _can_node_run: one matched requirement is enough
_can_node_run_any(node, store) ==
    /\ \E k \in DOMAIN node.requires :
          LET required == node.requires[k] IN
          \/ required \in DOMAIN store
          \/ \E name \in DOMAIN store : IsIndexedOf(name, required)
    /\ ~ \E k \in DOMAIN node.outputs :
          IsPlain(node.outputs[k]) /\ node.outputs[k] \in DOMAIN store

\* faulty variant of _can_node_run: the declared outputs are not looked at
_can_node_run_outputs_ignored(node, store) ==
    \A k \in DOMAIN node.requires :
        LET required == node.requires[k] IN
        \/ required \in DOMAIN store
        \/ \E name \in DOMAIN store : IsIndexedOf(name, required)

\* faulty variant of _can_node_run: a node is taken for done when the store
\* holds a unit whose producer has its node_id
_can_node_run_by_id(node, store) ==
    /\ \A k \in DOMAIN node.requires :
          LET required == node.requires[k] IN
          \/ required \in DOMAIN store
          \/ \E name \in DOMAIN store : IsIndexedOf(name, required)
    /\ ~ \E name \in DOMAIN store : store[name].node_id = Some(node.node_id)

\* faulty variant of _can_node_run: an indexed unit of a declared output
\* blocks the node as a plain one does
_can_node_run_indexed_outputs(node, store) ==
    /\ \A k \in DOMAIN node.requires :
          LET required == node.requires[k] IN
          \/ required \in DOMAIN store
          \/ \E name \in DOMAIN store : IsIndexedOf(name, required)
    /\ ~ \E k \in DOMAIN node.outputs :
          \/ node.outputs[k] \in DOMAIN store
          \/ \E name \in DOMAIN store : IsIndexedOf(name, node.outputs[k])

\* faulty variant of _can_node_run: a node whose error unit is in the store is
\* not tried again
_can_node_run_error_blocks(node, store) ==
    /\ \A k \in DOMAIN node.requires :
          LET required == node.requires[k] IN
          \/ required \in DOMAIN store
          \/ \E name \in DOMAIN store : IsIndexedOf(name, required)
    /\ ~ \E k \in DOMAIN node.outputs :
          IsPlain(node.outputs[k]) /\ node.outputs[k] \in DOMAIN store
    /\ Plain("error_" \o node.node_id) \notin DOMAIN store

\* faulty variant of _can_node_run: a node is taken for done only when all of
\* its declared plain outputs are in the store
_can_node_run_all_outputs(node, store) ==
    /\ \A k \in DOMAIN node.requires :
          LET required == node.requires[k] IN
          \/ required \in DOMAIN store
          \/ \E name \in DOMAIN store : IsIndexedOf(name, required)
    /\ \/ node.outputs = << >>
       \/ \E k \in DOMAIN node.outputs :
             IsPlain(node.outputs[k]) /\ node.outputs[k] \notin DOMAIN store

\* WorkflowEngine._can_node_run
_can_node_run(node, store) ==
    /\ \A k \in DOMAIN node.requires :
          LET required == node.requires[k] IN
          \/ required \in DOMAIN store
          \/ \E name \in DOMAIN store : IsIndexedOf(name, required)
    /\ ~ \E k \in DOMAIN node.outputs :
          IsPlain(node.outputs[k]) /\ node.outputs[k] \in DOMAIN store

\* faulty variant of IndexSet: a base with an exact unit is not skipped
IndexSet_exact_not_skipped(requires, store) ==
    {ParseInt(name.ix)[1] :
        name \in {nm \in DOMAIN store :
                    /\ \E k \in DOMAIN requires : IsIndexedOf(nm, requires[k])
                    /\ ParseInt(nm.ix) # None}}

\* faulty variant of IndexSet: only the indices every indexed base holds
IndexSet_common(requires, store) ==
    {i \in {ParseInt(name.ix)[1] :
              name \in {nm \in DOMAIN store :
                          /\ \E k \in DOMAIN requires :
                                /\ requires[k] \notin DOMAIN store
                                /\ IsIndexedOf(nm, requires[k])
                          /\ ParseInt(nm.ix) # None}} :
        \A k \in DOMAIN requires :
            requires[k] \notin DOMAIN store =>
                \E nm \in DOMAIN store :
                    /\ IsIndexedOf(nm, requires[k])
                    /\ ParseInt(nm.ix) = Some(i)}

\* the set  indices  built by WorkflowEngine._get_indexed_matches
IndexSet(requires, store) ==
    {ParseInt(name.ix)[1] :
        name \in {nm \in DOMAIN store :
                    /\ \E k \in DOMAIN requires :
                          /\ requires[k] \notin DOMAIN store
                          /\ IsIndexedOf(nm, requires[k])
                    /\ ParseInt(nm.ix) # None}}

\* faulty variant of _get_indexed_matches: only the lowest index is returned
_get_indexed_matches_first(requires, store) ==
    LET indices == IndexSet(requires, store) IN
    IF indices = {} THEN << >>
    ELSE <<CHOOSE i \in indices : \A j \in indices : i <= j>>

\* faulty variant of _get_indexed_matches: the indices in descending order
_get_indexed_matches_descending(requires, store) ==
    LET indices == IndexSet(requires, store) IN
    [k \in 1 .. Cardinality(indices) |->
        CHOOSE x \in indices : Cardinality({y \in indices : y > x}) = k - 1]

\* faulty variant of _get_indexed_matches: a base is fanned out over even
\* when the store holds its exact unit
_get_indexed_matches_exact_ignored(requires, store) ==
    CHOOSE sorted \in
        {SortedSeq(indices) :
            indices \in {{ParseInt(name.ix)[1] :
                            name \in {nm \in DOMAIN store :
                                        /\ \E k \in DOMAIN requires : IsIndexedOf(nm, requires[k])
                                        /\ ParseInt(nm.ix) # None}}}} : TRUE

\* WorkflowEngine._get_indexed_matches
_get_indexed_matches(requires, store) ==
    CHOOSE sorted \in {SortedSeq(indices) : indices \in {IndexSet(requires, store)}} : TRUE

\* the state threaded through _run_node: the store, the log, did_produce_outputs
RunState(store, log, did) == [parcels |-> store, log |-> log, did |-> did]

\* the parcel built for one item of the dict a run returned
OutputParcel(node, item) == Parcel(item.name, item.value, Some(node.node_id))

\* faulty variant of AddOutputs: a new unit evicts the other units of its base
AddOutputs_evicting(node, outputs, st) ==
    LET names == {outputs[k].name : k \in DOMAIN outputs}
        bases == {name.base : name \in names}
        ItemOf(name) == outputs[CHOOSE k \in DOMAIN outputs : outputs[k].name = name]
    IN  RunState([name \in {nm \in DOMAIN st.parcels : nm.base \notin bases} \cup names |->
                     IF name \in names THEN OutputParcel(node, ItemOf(name))
                     ELSE st.parcels[name]],
                 st.log \o [k \in DOMAIN outputs |-> LogCreated(OutputParcel(node, outputs[k]))],
                 st.did \/ outputs # << >>)

\* the loop  for output_name, output_value in outputs.items() : every item is
\* stored under its name (the keys of a dict are distinct) and logged
AddOutputs(node, outputs, st) ==
    LET names == {outputs[k].name : k \in DOMAIN outputs}
        ItemOf(name) == outputs[CHOOSE k \in DOMAIN outputs : outputs[k].name = name]
    IN  RunState([name \in DOMAIN st.parcels \cup names |->
                     IF name \in names THEN OutputParcel(node, ItemOf(name))
                     ELSE st.parcels[name]],
                 st.log \o [k \in DOMAIN outputs |-> LogCreated(OutputParcel(node, outputs[k]))],
                 st.did \/ outputs # << >>)

\* faulty variant of has_produced_for_index: an index is never seen as done
has_produced_for_index_never(node, index, store) == FALSE

\* faulty variant of has_produced_for_index: the index is not looked at, any
\* indexed unit of a declared output counts
has_produced_for_index_any(node, index, store) ==
    \E k \in DOMAIN node.outputs :
        \E name \in DOMAIN store : IsIndexedOf(name, node.outputs[k])

\* any(f"{output}[{index}]" in self.parcels for output in node.outputs)
has_produced_for_index(node, index, store) ==
    \E k \in DOMAIN node.outputs : HasIndexed(node.outputs[k], index, store)

\* the body of  for index in indexed_matches  for one index
RunIndex(node, index, st) ==
    IF has_produced_for_index(node, index, st.parcels) THEN st
    ELSE AddOutputs(node, run_safe(node, st.parcels, Some(index)),
                    RunState(st.parcels,
                             Append(st.log, LogRunning(node, Some(index))),
                             st.did))

RECURSIVE RunIndexed(_, _, _, _)
\* the loop  for index in indexed_matches  from position k on (the state after
\* one index is bound as a value before the loop goes on)
RunIndexed(node, indexed_matches, k, st) ==
    IF k > Len(indexed_matches) THEN st
    ELSE CHOOSE result \in {RunIndexed(node, indexed_matches, k + 1, after) :
                               after \in {RunIndex(node, indexed_matches[k], st)}} : TRUE

\* the else branch of _run_node: one run without index
RunPlain(node, st) ==
    AddOutputs(node, run_safe(node, st.parcels, None),
               RunState(st.parcels,
                        st.log \o <<LogRunning(node, None),
                                    LogInput(GetRequiredParcels(node, st.parcels))>>,
                        st.did))

\* faulty variant of _run_node: it reports outputs also when every index was
\* skipped (did_produce_outputs starts as True)
_run_node_always_ran(node, store, log) ==
    CHOOSE result \in
        {IF indexed_matches # << >>
         THEN RunIndexed(node, indexed_matches, 1, RunState(store, log, TRUE))
         ELSE RunPlain(node, RunState(store, log, TRUE)) :
            indexed_matches \in {_get_indexed_matches(node.requires, store)}} : TRUE

\* WorkflowEngine._run_node: the store and log after it, and its return value
_run_node(node, store, log) ==
    CHOOSE result \in
        {IF indexed_matches # << >>
         THEN RunIndexed(node, indexed_matches, 1, RunState(store, log, FALSE))
         ELSE RunPlain(node, RunState(store, log, FALSE)) :
            indexed_matches \in {_get_indexed_matches(node.requires, store)}} : TRUE

(***************************************************************************)
(* The calls the engine is checked on: node lists and initial data         *)
(***************************************************************************)
Workflow(nodeList, data) == [nodes |-> nodeList, initial_data |-> data]

EmptyData == [name \in {} |-> PyNone]
\* the dict with one key
Data1(name, value) == [k \in {name} |-> value]
\* the union of two dicts with disjoint keys
Merge(d1, d2) ==
    [k \in DOMAIN d1 \cup DOMAIN d2 |-> IF k \in DOMAIN d1 THEN d1[k] ELSE d2[k]]

\* the list ["a", "b", "c", ...] of length n
ItemList(n) == List([k \in 1 .. n |-> Str(ItemAt(k - 1))])
\* the family base[i] for i in the set S
Family(base, S) == [name \in {Indexed(base, i) : i \in S} |-> Str(ItemAt(ParseInt(name.ix)[1]))]

Spread == ArraySpreadNode("spread", "items", "item")
Process == ProcessItemNode("process", "item", "processed")
Collect == CollectNode("collect", "processed", "result", "item_meta")
Response == ResponseNode("response", "result")

\* spread, map, collect (and response) in every order, over lists of every length
ArrayWorkflows ==
    {Workflow(nodeList, Data1(Plain("items"), ItemList(n))) :
        nodeList \in Perms({Spread, Process, Collect})
                     \cup Perms({Spread, Process, Collect, Response}),
        n \in 0 .. MaxItems}

N1 == SimpleNode("n1", "a", "b")
N2 == SimpleNode("n2", "b", "c")
N3 == SimpleNode("n3", "c", "d")

\* a chain a -> b -> c -> d in every order, with and without its seed
ChainWorkflows ==
    {Workflow(nodeList, data) :
        nodeList \in {<< >>} \cup Perms({N1}) \cup Perms({N1, N2}) \cup Perms({N1, N2, N3})
                     \cup Perms({N2, N3}),
        data \in {EmptyData, Data1(Plain("a"), Str("hello")),
                  Data1(Plain("zzz"), Str("hello"))}}

\* one fan-out node over a seeded family, with and without the exact name
FanOutWorkflows ==
    {Workflow(<<node>>, Merge(Family("item", S), exact)) :
        node \in {SimpleNode("process", "item", "processed"), Process},
        S \in SUBSET (0 .. MaxItems - 1),
        exact \in {EmptyData, Data1(Plain("item"), Str("hello"))}}

\* a node that always raises, beside independent nodes
FailingWorkflows ==
    {Workflow(nodeList, data) :
        nodeList \in Perms({FailingNode, N1}) \cup Perms({FailingNode, N1, N2}),
        data \in {Merge(Data1(Plain("input"), Str("hello")), Data1(Plain("a"), Str("hello"))),
                  Data1(Plain("a"), Str("hello"))}}

\* two nodes that emit the same name
CollisionWorkflows ==
    {Workflow(nodeList, data) :
        nodeList \in Perms({SimpleNode("m", "b", "item"), Spread}),
        data \in {Merge(Data1(Plain("items"), ItemList(2)), Family("b", {0})),
                  Merge(Data1(Plain("items"), ItemList(2)), Family("item", {0}))}}

\* a node with two requirements, fed by two others
MultiWorkflows ==
    {Workflow(nodeList, data) :
        nodeList \in Perms({SimpleNode("node1", "x", "a"), SimpleNode("node2", "y", "b"),
                            MultiInputNode}),
        data \in {Merge(Data1(Plain("x"), Str("hello")), Data1(Plain("y"), Str("a"))),
                  Data1(Plain("x"), Str("hello"))}}

\* node i of a chain x0 -> x1 -> x2 -> ...
ChainNode(i) == SimpleNode("n" \o IntToStr(i), "x" \o IntToStr(i - 1), "x" \o IntToStr(i))
\* a chain of n nodes listed in reverse dependency order, with its seed x0
ReversedChain(n) ==
    Workflow([k \in 1 .. n |-> ChainNode(n + 1 - k)], Data1(Plain("x0"), Str("hello")))

\* chains that need about max_iterations passes, and short ones
LongWorkflows ==
    {ReversedChain(n) :
        n \in (0 .. MaxChain) \cup {max_iterations - 2, max_iterations - 1, max_iterations,
                                     max_iterations + 1}}

\* the map node over a family one of whose names int() reads as an index that
\* has no unit of its own: item[01] is read as index 1, item[1] is absent
MisuseWorkflows ==
    {Workflow(<<Process>>, Merge(Data1(Bracketed("item", "01"), Str("a")), Family("item", S))) :
        S \in {{}, {0}}}

\* a node that emits "output" while it declares another name
Renaming == TestNodeWith("renaming", <<Plain("a")>>, <<Plain("c")>>)

\* nodes that never emit a declared name, alone, beside independent nodes, and
\* beside a node that emits the name they declare
UnpublishedWorkflows ==
    {Workflow(nodeList, Merge(Data1(Plain("input"), Str("hello")),
                              Data1(Plain("a"), Str("hello")))) :
        nodeList \in {<<Renaming>>}
                     \cup Perms({Renaming, N1}) \cup Perms({Renaming, N1, N2})
                     \cup Perms({FailingNode, SimpleNode("s", "a", "output")})}

\* nodes with two declared outputs, of which they emit "output"
MultiOut == TestNodeWith("multi_out", <<Plain("a")>>, <<Plain("output"), Plain("other")>>)
FanMulti == TestNodeWith("fan_multi", <<Plain("item")>>, <<Plain("processed"), Plain("output")>>)

\* such a node alone and beside a node that emits its other declared name,
\* without index and over a family
SeveralOutputsWorkflows ==
    {Workflow(nodeList, Data1(Plain("a"), Str("hello"))) :
        nodeList \in {<<MultiOut>>} \cup Perms({MultiOut, SimpleNode("s", "a", "other")})}
    \cup
    {Workflow(nodeList, Merge(Family("item", {0, 1}), seeded)) :
        nodeList \in {<<FanMulti>>} \cup Perms({FanMulti, Process}),
        seeded \in {EmptyData, Family("processed", {0})}}

\* a node that fans out over b and emits item[i]
Feeder == SimpleNode("m", "b", "item")

\* a fan-out node over the family item, part of which is seeded and part of
\* which the feeder emits, in the same pass or in a later one
LateWorkflows ==
    {Workflow(nodeList, Merge(Family("item", SI), Family("b", SB))) :
        nodeList \in Perms({SimpleNode("process", "item", "processed"), Feeder})
                     \cup Perms({Process, Feeder}),
        SI \in SUBSET (0 .. MaxItems - 1),
        SB \in SUBSET (0 .. MaxItems - 1)}

\* a node that emits the exact unit item
Exact == SimpleNode("x", "a", "item")
\* the same node, waiting for the unit b of N1
ExactLate == SimpleNode("x", "b", "item")

\* a fan-out node over the seeded family item, beside a node that emits the
\* exact unit item in the first pass or in the second, and beside the feeder
ModeSwitchWorkflows ==
    {Workflow(nodeList, Merge(Merge(Family("item", SI), Family("b", SB)),
                              Data1(Plain("a"), Str("hello")))) :
        nodeList \in Perms({SimpleNode("process", "item", "processed"), Exact})
                     \cup Perms({SimpleNode("process", "item", "processed"), Exact, Feeder}),
        SI \in SUBSET (0 .. MaxItems - 1),
        SB \in {{}, {MaxItems - 1}}}
    \cup
    {Workflow(nodeList, Merge(Family("item", SI), Data1(Plain("a"), Str("hello")))) :
        nodeList \in Perms({Process, Exact})
                     \cup Perms({SimpleNode("process", "item", "processed"), ExactLate, N1}),
        SI \in SUBSET (0 .. MaxItems - 2)}

Workflows ==
    ArrayWorkflows \cup ChainWorkflows \cup FanOutWorkflows \cup FailingWorkflows
    \cup CollisionWorkflows \cup MultiWorkflows \cup MisuseWorkflows
    \cup UnpublishedWorkflows \cup SeveralOutputsWorkflows \cup LateWorkflows
    \cup ModeSwitchWorkflows

(***************************************************************************)
(* execute_workflow, step by step                                          *)
(***************************************************************************)
Init ==
    /\ pc = "idle"
    /\ nodes = << >>
    /\ initial_data = EmptyData
    /\ parcels = EmptyData
    /\ execution_log = << >>
    /\ iteration = 0
    /\ nodes_ran = 0
    /\ pos = 0
    /\ returned = None

\* faulty variant of ExecuteWorkflow: the initial data are not put in the store
ExecuteWorkflow_unseeded(W) ==
    /\ pc = "idle"
    /\ \E w \in W :
          /\ nodes' = w.nodes
          /\ initial_data' = w.initial_data
          /\ parcels' = EmptyData
          /\ execution_log' = <<LogStarting(Len(w.nodes)),
                                LogInitial(DOMAIN w.initial_data)>>
    /\ iteration' = 0
    /\ pc' = "while"
    /\ UNCHANGED <<nodes_ran, pos, returned>>

\* the call: reset of store and log, seeding, the two opening log lines
ExecuteWorkflow(W) ==
    /\ pc = "idle"
    /\ \E w \in W :
          /\ nodes' = w.nodes
          /\ initial_data' = w.initial_data
          /\ parcels' = [name \in DOMAIN w.initial_data |->
                            Parcel(name, w.initial_data[name], None)]
          /\ execution_log' = <<LogStarting(Len(w.nodes)),
                                LogInitial(DOMAIN w.initial_data)>>
    /\ iteration' = 0
    /\ pc' = "while"
    /\ UNCHANGED <<nodes_ran, pos, returned>>

\* faulty variant of BeginPass: the while condition is not tested
BeginPass_unbounded ==
    /\ pc = "while"
    /\ iteration' = iteration + 1
    /\ execution_log' = Append(execution_log, LogIteration(iteration + 1))
    /\ nodes_ran' = 0
    /\ pos' = 1
    /\ pc' = "for"
    /\ UNCHANGED <<nodes, initial_data, parcels, returned>>

\* faulty variant of BeginPass: the while condition lets one more pass begin
BeginPass_one_more ==
    /\ pc = "while"
    /\ iteration <= max_iterations
    /\ iteration' = iteration + 1
    /\ execution_log' = Append(execution_log, LogIteration(iteration + 1))
    /\ nodes_ran' = 0
    /\ pos' = 1
    /\ pc' = "for"
    /\ UNCHANGED <<nodes, initial_data, parcels, returned>>

\* while iteration < max_iterations: the pass begins
BeginPass ==
    /\ pc = "while"
    /\ iteration < max_iterations
    /\ iteration' = iteration + 1
    /\ execution_log' = Append(execution_log, LogIteration(iteration + 1))
    /\ nodes_ran' = 0
    /\ pos' = 1
    /\ pc' = "for"
    /\ UNCHANGED <<nodes, initial_data, parcels, returned>>

\* the while condition is false: the loop is left
LoopExhausted ==
    /\ pc = "while"
    /\ ~(iteration < max_iterations)
    /\ pc' = "exit"
    /\ UNCHANGED <<nodes, initial_data, parcels, execution_log, iteration, nodes_ran, pos,
                   returned>>

\* faulty variant of NodeStep: readiness is decided on the store as it was when
\* the pass began (the units created during the pass are not looked at)
NodeStep_snapshot ==
    /\ pc = "for"
    /\ pos <= Len(nodes)
    /\ LET node == nodes[pos]
           start == CHOOSE k \in DOMAIN execution_log :
                        execution_log[k] = LogIteration(iteration)
           old == DOMAIN initial_data \cup
                      {execution_log[k].name :
                          k \in {j \in 1 .. start : execution_log[j].t = "created"}}
           snapshot == [name \in old |-> parcels[name]]
       IN  IF _can_node_run(node, snapshot)
           THEN LET st == _run_node(node, parcels, execution_log) IN
                /\ parcels' = st.parcels
                /\ execution_log' = st.log
                /\ nodes_ran' = IF st.did THEN nodes_ran + 1 ELSE nodes_ran
           ELSE UNCHANGED <<parcels, execution_log, nodes_ran>>
    /\ pos' = pos + 1
    /\ UNCHANGED <<pc, nodes, initial_data, iteration, returned>>

\* the body of  for node in nodes  for the node at pos
NodeStep ==
    /\ pc = "for"
    /\ pos <= Len(nodes)
    /\ LET node == nodes[pos] IN
       IF _can_node_run(node, parcels)
       THEN LET st == _run_node(node, parcels, execution_log) IN
            /\ parcels' = st.parcels
            /\ execution_log' = st.log
            /\ nodes_ran' = IF st.did THEN nodes_ran + 1 ELSE nodes_ran
       ELSE UNCHANGED <<parcels, execution_log, nodes_ran>>
    /\ pos' = pos + 1
    /\ UNCHANGED <<pc, nodes, initial_data, iteration, returned>>

\* faulty variant of EndPassComplete: the loop also breaks after a pass in
\* which a single node ran (nodes_ran <= 1)
EndPassComplete_at_most_one ==
    /\ pc = "for"
    /\ pos > Len(nodes)
    /\ nodes_ran <= 1
    /\ execution_log' = Append(execution_log, LogComplete)
    /\ pc' = "exit"
    /\ UNCHANGED <<nodes, initial_data, parcels, iteration, nodes_ran, pos, returned>>

\* after the for loop: if nodes_ran == 0, log completion and break
EndPassComplete ==
    /\ pc = "for"
    /\ pos > Len(nodes)
    /\ nodes_ran = 0
    /\ execution_log' = Append(execution_log, LogComplete)
    /\ pc' = "exit"
    /\ UNCHANGED <<nodes, initial_data, parcels, iteration, nodes_ran, pos, returned>>

\* after the for loop: some node ran, back to the while condition
EndPassContinue ==
    /\ pc = "for"
    /\ pos > Len(nodes)
    /\ nodes_ran # 0
    /\ pc' = "while"
    /\ UNCHANGED <<nodes, initial_data, parcels, execution_log, iteration, nodes_ran, pos,
                   returned>>

\* if iteration >= max_iterations: log the warning; return self.parcels
Return ==
    /\ pc = "exit"
    /\ execution_log' = IF iteration >= max_iterations
                        THEN Append(execution_log, LogMaxIterations)
                        ELSE execution_log
    /\ pc' = "done"
    /\ returned' = Some(parcels)
    /\ UNCHANGED <<nodes, initial_data, parcels, iteration, nodes_ran, pos>>

Next ==
    \/ ExecuteWorkflow(Workflows)
    \/ BeginPass
    \/ LoopExhausted
    \/ NodeStep
    \/ EndPassComplete
    \/ EndPassContinue
    \/ Return

Spec == Init /\ [][Next]_vars

\* the same engine, called on the long chains
NextLong ==
    \/ ExecuteWorkflow(LongWorkflows)
    \/ BeginPass
    \/ LoopExhausted
    \/ NodeStep
    \/ EndPassComplete
    \/ EndPassContinue
    \/ Return

SpecLong == Init /\ [][NextLong]_vars

\* the same engine, called on the short lists and on the long chains
NextAll ==
    \/ ExecuteWorkflow(Workflows \cup LongWorkflows)
    \/ BeginPass
    \/ LoopExhausted
    \/ NodeStep
    \/ EndPassComplete
    \/ EndPassContinue
    \/ Return

SpecAll == Init /\ [][NextAll]_vars

\* the steps of a call that is under way
Running ==
    \/ BeginPass
    \/ LoopExhausted
    \/ NodeStep
    \/ EndPassComplete
    \/ EndPassContinue
    \/ Return

\* execute_workflow is a sequential procedure: once called, it keeps taking
\* steps until it returns
FairSpec == Init /\ [][Next]_vars /\ WF_vars(Running)

(***************************************************************************)
(* Node lists in which two nodes share one node_id                         *)
(***************************************************************************)
\* the ids given to the two nodes of a list
NodeIds == {"same_id", "other_id"}

\* pairs of nodes, dependent and independent, of one class and of two, under
\* every choice of ids; and the always-raising node beside a node of its id
DuplicateWorkflows ==
    {Workflow(nodeList, Merge(Data1(Plain("a"), Str("hello")),
                              Data1(Plain("input"), Str("hello")))) :
        nodeList \in
            UNION {{<<SimpleNode(i, "a", "b"), SimpleNode(j, "b", "c")>>,
                    <<SimpleNode(j, "b", "c"), SimpleNode(i, "a", "b")>>,
                    <<SimpleNode(i, "a", "b"), SimpleNode(j, "a", "c")>>,
                    <<RequestNode(i), SimpleNode(j, "request_data", "c")>>,
                    <<RequestNode(i), SimpleNode(j, "a", "b")>>} :
                        i \in NodeIds, j \in NodeIds}
            \cup {<<FailingNode, SimpleNode("failing", "a", "b")>>,
                  <<SimpleNode("failing", "a", "b"), FailingNode>>}}

NextDuplicate ==
    \/ ExecuteWorkflow(DuplicateWorkflows)
    \/ BeginPass
    \/ LoopExhausted
    \/ NodeStep
    \/ EndPassComplete
    \/ EndPassContinue
    \/ Return

SpecDuplicate == Init /\ [][NextDuplicate]_vars

(***************************************************************************)
(* Nodes that require two bases, over two families                         *)
(***************************************************************************)
\* a SimpleNode whose requires list names a second base beside its input:
\* its run reads input_name[index] and emits output_name[index]
Pair ==
    [cls |-> "SimpleNode", node_id |-> "pair",
     requires |-> <<Plain("a"), Plain("b")>>, outputs |-> <<Plain("out")>>,
     input_name |-> "a", output_name |-> "out"]

\* the node over every pair of families a[i], b[j]; MultiInputNode, which
\* reads the exact names a and b, over the same families
UnionWorkflows ==
    {Workflow(<<node>>, Merge(Family("a", SA), Family("b", SB))) :
        node \in {Pair, MultiInputNode},
        SA \in SUBSET (0 .. MaxItems - 1),
        SB \in SUBSET (0 .. MaxItems - 1)}

NextUnion ==
    \/ ExecuteWorkflow(UnionWorkflows)
    \/ BeginPass
    \/ LoopExhausted
    \/ NodeStep
    \/ EndPassComplete
    \/ EndPassContinue
    \/ Return

SpecUnion == Init /\ [][NextUnion]_vars

(***************************************************************************)
(* Lists of nodes whose runs raise, over families                          *)
(***************************************************************************)
\* the two-base node under the node_id of MultiInputNode
PairTwin == [Pair EXCEPT !.node_id = MultiInputNode.node_id]

\* nodes that raise at some or at all of the indices they are fanned out
\* over: the two-base node where a[i] is absent, MultiInputNode and
\* FailingNode at every index; with distinct ids and with a shared one
ErrorWorkflows ==
    {Workflow(nodeList,
              Merge(Merge(Family("a", SA), Family("b", SB)), Family("input", SI))) :
        nodeList \in {<<Pair>>, <<Pair, MultiInputNode>>, <<MultiInputNode, Pair>>,
                      <<FailingNode, MultiInputNode, Pair>>,
                      <<MultiInputNode, PairTwin>>, <<PairTwin, MultiInputNode>>},
        SA \in {{}, {0}},
        SB \in {{0}, {0, 1}, 0 .. MaxItems - 1},
        SI \in {{}, {0, 1}}}

NextErrors ==
    \/ ExecuteWorkflow(ErrorWorkflows)
    \/ BeginPass
    \/ LoopExhausted
    \/ NodeStep
    \/ EndPassComplete
    \/ EndPassContinue
    \/ Return

SpecErrors == Init /\ [][NextErrors]_vars

(***************************************************************************)
(* Several calls on one engine                                             *)
(***************************************************************************)
\* the calls made one after the other on the same engine
AgainWorkflows ==
    {Workflow(nodeList, data) :
        nodeList \in {<< >>, <<N1>>, <<N1, N2>>, <<N2, N1>>},
        data \in {EmptyData, Data1(Plain("a"), Str("hello")),
                  Data1(Plain("zzz"), Str("hello"))}}
    \cup {Workflow(<<Spread, Process, Collect>>, Data1(Plain("items"), ItemList(n))) :
             n \in {0, MaxItems}}
    \cup {Workflow(<<FailingNode>>, Data1(Plain("input"), Str("hello")))}

\* faulty variant of ExecuteWorkflowAgain: the units of the earlier call are
\* kept and the new seed is added to them (self.parcels = {} left out)
ExecuteWorkflowAgain_kept(W) ==
    /\ pc = "done"
    /\ \E w \in W :
          /\ nodes' = w.nodes
          /\ initial_data' = w.initial_data
          /\ parcels' = [name \in DOMAIN parcels \cup DOMAIN w.initial_data |->
                            IF name \in DOMAIN w.initial_data
                            THEN Parcel(name, w.initial_data[name], None)
                            ELSE parcels[name]]
          /\ execution_log' = <<LogStarting(Len(w.nodes)),
                                LogInitial(DOMAIN parcels \cup DOMAIN w.initial_data)>>
    /\ iteration' = 0
    /\ nodes_ran' = 0
    /\ pos' = 0
    /\ pc' = "while"
    /\ UNCHANGED returned

\* a later call on the same engine: self.parcels and self.execution_log are
\* bound to a new dict and a new list, which are seeded and written like those
\* of a first call; the dict the earlier call returned is not touched
ExecuteWorkflowAgain(W) ==
    /\ pc = "done"
    /\ \E w \in W :
          /\ nodes' = w.nodes
          /\ initial_data' = w.initial_data
          /\ parcels' = [name \in DOMAIN w.initial_data |->
                            Parcel(name, w.initial_data[name], None)]
          /\ execution_log' = <<LogStarting(Len(w.nodes)),
                                LogInitial(DOMAIN w.initial_data)>>
    /\ iteration' = 0
    /\ nodes_ran' = 0
    /\ pos' = 0
    /\ pc' = "while"
    /\ UNCHANGED returned

NextAgain ==
    \/ ExecuteWorkflow(AgainWorkflows)
    \/ ExecuteWorkflowAgain(AgainWorkflows)
    \/ BeginPass
    \/ LoopExhausted
    \/ NodeStep
    \/ EndPassComplete
    \/ EndPassContinue
    \/ Return

SpecAgain == Init /\ [][NextAgain]_vars

(***************************************************************************)
(* Direct calls of _get_indexed_matches and of can_run on a given store    *)
(***************************************************************************)
\* TestNode(requires=...) of src/tests/test_base_node.py
TestNode(requires) == BaseNode("TestNode", "test", requires, <<Plain("output")>>)

\* the names a store is built from: exact names, indexed names, names whose
\* bracket text int() normalises ("01") or rejects ("abc")
NamePool ==
    {Plain("item"), Plain("b"), Indexed("b", 1), Indexed("b", MaxItems + 7),
     Bracketed("item", "01"), Bracketed("item", "abc")}
    \cup {Indexed("item", i) : i \in 0 .. MaxItems - 1}

\* the requires lists a call is made with
RequiresLists ==
    {<< >>, <<Plain("item")>>, <<Plain("b")>>, <<Plain("item"), Plain("b")>>,
     <<Plain("item"), Plain("item")>>}

\* a store with the given keys
StoreOf(names) == [name \in names |-> Parcel(name, Str("a"), None)]

InitCalls ==
    /\ pc = "call"
    /\ \E requires \in RequiresLists : nodes = <<TestNode(requires)>>
    /\ \E names \in SUBSET NamePool :
          /\ initial_data = [name \in names |-> Str("a")]
          /\ parcels = StoreOf(names)
    /\ execution_log = << >>
    /\ iteration = 0
    /\ nodes_ran = 0
    /\ pos = 0
    /\ returned = None

\* engine._get_indexed_matches(node.requires, parcels)
CallGetIndexedMatches ==
    /\ pc = "call"
    /\ returned' = Some(_get_indexed_matches(nodes[1].requires, parcels))
    /\ pc' = "matches"
    /\ UNCHANGED <<nodes, initial_data, parcels, execution_log, iteration,
                   nodes_ran, pos>>

\* node.can_run(parcels)
CallCanRun ==
    /\ pc = "call"
    /\ returned' = Some(CanRun(nodes[1], parcels))
    /\ pc' = "can_run"
    /\ UNCHANGED <<nodes, initial_data, parcels, execution_log, iteration,
                   nodes_ran, pos>>

NextCalls ==
    \/ CallGetIndexedMatches
    \/ CallCanRun

SpecCalls == InitCalls /\ [][NextCalls]_vars

(***************************************************************************)
(* Direct calls of _can_node_run on a given store                          *)
(***************************************************************************)
\* the names a store is built from in these calls: required names and
\* declared outputs, exact and with brackets
ReadyNamePool ==
    {Plain("input"), Indexed("input", 0), Bracketed("input", "abc"),
     Plain("b"), Indexed("b", 1),
     Plain("output"), Indexed("output", 0), Plain("other")}

\* the nodes the calls are made for: requires and outputs lists of length 0
\* to 2; SimpleNode("test", "input", "output") of the tests is one of them
ReadyNodes ==
    {BaseNode("SimpleNode", "test", requires, outputs) :
        requires \in {<< >>, <<Plain("input")>>, <<Plain("b")>>,
                      <<Plain("input"), Plain("b")>>},
        outputs \in {<< >>, <<Plain("output")>>, <<Plain("other")>>,
                     <<Plain("output"), Plain("other")>>,
                     <<Indexed("output", 0)>>}}

InitReady ==
    /\ pc = "call"
    /\ \E node \in ReadyNodes : nodes = <<node>>
    /\ \E names \in SUBSET ReadyNamePool :
          /\ initial_data = [name \in names |-> Str("a")]
          /\ parcels = StoreOf(names)
    /\ execution_log = << >>
    /\ iteration = 0
    /\ nodes_ran = 0
    /\ pos = 0
    /\ returned = None

\* engine.parcels = {...}; engine._can_node_run(node)
CallCanNodeRun ==
    /\ pc = "call"
    /\ returned' = Some(_can_node_run(nodes[1], parcels))
    /\ pc' = "ready"
    /\ UNCHANGED <<nodes, initial_data, parcels, execution_log, iteration,
                   nodes_ran, pos>>

NextReady == CallCanNodeRun

SpecReady == InitReady /\ [][NextReady]_vars

(***************************************************************************)
(* Direct calls of CollectNode.run on stores filled in a given order       *)
(***************************************************************************)
\* CollectNode("collect", "num", "result", "meta") of src/tests/test_nodes.py
NumCollect == CollectNode("collect", "num", "result", "meta")

\* a length that needs two digits for its last index
LongLength == 11

\* the value of num[i]
NumValue(i) == Str("v" \o IntToStr(i))

\* all orderings of a small set of indices; ascending and descending order of
\* a larger one
InsertionOrders(S) ==
    IF Cardinality(S) <= MaxItems THEN Perms(S)
    ELSE {SortedSeq(S),
          [k \in 1 .. Cardinality(S) |-> SortedSeq(S)[Cardinality(S) + 1 - k]]}

\* the families num[i] a store is filled with, for an announced length
PresentSets(length) ==
    IF length <= MaxItems THEN SUBSET (0 .. length - 1)
    ELSE {0 .. length - 1, (0 .. length - 1) \ {1}, {2, length - 1}, {length - 2, length - 1}}

\* the metadata units: with the announced length, or without a length entry
MetaValues(length) ==
    {MetaDict(length, << >>, "num"), [t |-> "dict", output_prefix |-> "num"]}

\* the dict is filled with meta, then with the num[i] in the given order (and
\* with units that are not part of the family): execution_log keeps the order
InitCollect ==
    /\ pc = "call"
    /\ nodes = <<NumCollect>>
    /\ \E length \in (0 .. MaxItems) \cup {LongLength} :
       \E meta \in MetaValues(length) :
       \E present \in PresentSets(length) :
       \E order \in InsertionOrders(present) :
       \E others \in SUBSET {Bracketed("num", "abc"), Indexed("num", length)} :
          LET numbered == [k \in DOMAIN order |-> Indexed("num", order[k])]
              names == {Plain("meta")} \cup Range(numbered) \cup others
              ValueOf(name) == IF name = Plain("meta") THEN meta
                               ELSE IF ParseInt(name.ix) # None
                                    THEN NumValue(ParseInt(name.ix)[1])
                                    ELSE Str("other")
          IN  /\ initial_data = [name \in names |-> ValueOf(name)]
              /\ parcels = [name \in names |-> Parcel(name, ValueOf(name), None)]
              /\ execution_log =
                    [k \in DOMAIN order |->
                        LogCreated(Parcel(numbered[k], ValueOf(numbered[k]), None))]
    /\ iteration = 0
    /\ nodes_ran = 0
    /\ pos = 0
    /\ returned = None

\* node.run(parcels)
CallCollectRun ==
    /\ pc = "call"
    /\ returned' = Some(Run(nodes[1], parcels, None))
    /\ pc' = "collected"
    /\ UNCHANGED <<nodes, initial_data, parcels, execution_log, iteration,
                   nodes_ran, pos>>

NextCollect == CallCollectRun

SpecCollect == InitCollect /\ [][NextCollect]_vars

(***************************************************************************)
(* Reading the execution log                                               *)
(***************************************************************************)
\* positions of the log entries of kind t
Positions(t) == {k \in DOMAIN execution_log : execution_log[k].t = t}

\* the node of the list a "running" entry is about
NodeOf(entry) == CHOOSE n \in Range(nodes) : NodeStr(n) = entry.node

\* position of the "iteration" entry that opens the current (or last) pass
LastPassStart ==
    CHOOSE k \in DOMAIN execution_log :
        execution_log[k].t = "iteration" /\ execution_log[k].n = iteration

\* names of the "created" entries at positions lo .. hi
CreatedIn(lo, hi) ==
    {execution_log[k].name : k \in {j \in lo .. hi : execution_log[j].t = "created"}}

\* names that were inserted for the first time during the last pass
NewInLastPass ==
    CreatedIn(LastPassStart, Len(execution_log))
        \ (DOMAIN initial_data \cup CreatedIn(1, LastPassStart))

RECURSIVE CreatedBy(_)
\* names emitted by the invocation whose "running" entry is at position k
CreatedBy(k) ==
    IF k + 1 > Len(execution_log) THEN {}
    ELSE LET e == execution_log[k + 1] IN
         IF e.t = "created" THEN {e.name} \cup CreatedBy(k + 1)
         ELSE IF e.t = "input" THEN CreatedBy(k + 1)
         ELSE {}

\* the declared output names an invocation is skipped on: the plain declared
\* names without index, out[i] with index i
DeclaredFor(node, index) ==
    LET plain == {o \in Range(node.outputs) : IsPlain(o)} IN
    IF index = None THEN plain ELSE {Indexed(o.base, index[1]) : o \in plain}

\* the invocation at position k emitted one of its declared output names
PublishedDeclared(k) ==
    LET e == execution_log[k] IN
    CreatedBy(k) \cap DeclaredFor(NodeOf(e), e.index) # {}

\* number of invocations of a node, with index or without
Invocations(node, index) ==
    Cardinality({k \in Positions("running") :
                    /\ execution_log[k].node = NodeStr(node)
                    /\ execution_log[k].index = index})

(***************************************************************************)
(* C1  Single-assignment: once a name is in the store, no later step of    *)
(* the call replaces its unit; value and producer stay those of the first  *)
(* insertion.                                                              *)
(***************************************************************************)
C1_SingleAssignment ==
    [][\A name \in DOMAIN parcels :
          name \in DOMAIN parcels' /\ parcels'[name] = parcels[name]]_vars

(***************************************************************************)
(* C2  Wait for the whole array: whenever the engine is about to execute a *)
(* CollectNode, the node's own can_run holds, i.e. every index             *)
(* 0 .. length-1 of its input family is in the store.                      *)
(***************************************************************************)
C2_CollectWaitsForAll ==
    (/\ pc = "for"
     /\ pos <= Len(nodes)
     /\ nodes[pos].cls = "CollectNode"
     /\ _can_node_run(nodes[pos], parcels))
        => CanRun(nodes[pos], parcels)

(***************************************************************************)
(* C3  End-to-end order independence: with items = [a, b, c] and the nodes *)
(* spread, map, collect in any of the six orders, the final store holds    *)
(* result = the three mapped values in index order.                        *)
(***************************************************************************)
C3_OrderIndependent ==
    (/\ pc = "done"
     /\ Len(nodes) = 3
     /\ Range(nodes) = {Spread, Process, Collect}
     /\ initial_data = Data1(Plain("items"), ItemList(3)))
        => /\ Plain("result") \in DOMAIN parcels
           /\ parcels[Plain("result")].value =
                  List(<<ProcessItem(Str("a")), ProcessItem(Str("b")),
                         ProcessItem(Str("c"))>>)

(***************************************************************************)
(* C4  Fixed-point stop: a pass that inserted no new name is the last one; *)
(* the loop never goes back to its head after such a pass.                 *)
(***************************************************************************)
C4_StopsAfterIdlePass ==
    (pc = "while" /\ iteration > 0) => NewInLastPass # {}

(***************************************************************************)
(* C5  Readiness monotonicity.                                             *)
(***************************************************************************)
\* "running" entries of the current (or last) pass
LastPassRunning == {k \in Positions("running") : k > LastPassStart}

\* two "running" entries are the same invocation: same node, same index
SameInvocation(k1, k2) ==
    /\ execution_log[k1].node = execution_log[k2].node
    /\ execution_log[k1].index = execution_log[k2].index

C6_BoundedTermination ==
    /\ [](iteration <= max_iterations)
    /\ [](pc # "idle" => <>(pc = "done"))

\* a call that was stopped by the bound: pass max_iterations still ran a node
C6_Witness ==
    /\ pc = "done"
    /\ iteration = max_iterations
    /\ nodes_ran > 0

(***************************************************************************)
(* C7  Distinguishable terminal reason: the log of a finished call holds   *)
(* exactly one of the entries "workflow complete" and "max iterations      *)
(* reached".                                                               *)
(***************************************************************************)
C7_OneTerminalReason ==
    pc = "done" =>
        Cardinality(Positions("complete")) + Cardinality(Positions("max_iterations")) = 1

(***************************************************************************)
(* C8  Error containment: a run that raises becomes the single item        *)
(* error_<node_id>, which the engine stores; the nodes that do not depend  *)
(* on the failing node are executed and have their outputs in the final    *)
(* store.                                                                  *)
(***************************************************************************)
\* the indices the engine may call the node at pos with, in the current state
CallIndices(node) ==
    LET m == _get_indexed_matches(node.requires, parcels) IN
    IF m = << >> THEN {None} ELSE {Some(m[k]) : k \in DOMAIN m}

\* C8: a raising run yields exactly the item error_<node_id>; with a failing
\* node in the list, the error unit is stored and every independent node is
\* executed once and has its output in the final store.
C8_ErrorContainment ==
    /\ (pc = "for" /\ pos <= Len(nodes)) =>
          \A index \in CallIndices(nodes[pos]) :
              ~Run(nodes[pos], parcels, index).ok =>
                  LET out == run_safe(nodes[pos], parcels, index) IN
                  /\ Len(out) = 1
                  /\ out[1].name = ErrorName(nodes[pos])
                  /\ out[1].value.node_id = nodes[pos].node_id
    /\ (/\ pc = "done"
        /\ FailingNode \in Range(nodes)
        /\ Invocations(FailingNode, None) > 0
        /\ Plain("input") \in DOMAIN initial_data
        /\ Plain("a") \in DOMAIN initial_data) =>
          /\ ErrorName(FailingNode) \in DOMAIN parcels
          /\ parcels[ErrorName(FailingNode)].node_id = Some(FailingNode.node_id)
          /\ parcels[ErrorName(FailingNode)].value =
                 ErrorDict("Test error", FailingNode.node_id)
          /\ Plain("output") \in DOMAIN parcels =>
                parcels[Plain("output")].node_id # Some(FailingNode.node_id)
          /\ \A n \in Range(nodes) \ {FailingNode} :
                /\ Invocations(n, None) = 1
                /\ n.outputs[1] \in DOMAIN parcels
                /\ parcels[n.outputs[1]].node_id = Some(n.node_id)
                /\ parcels[n.outputs[1]].value = Str("HELLO")

\* the failing node is listed first, an independent node ran in the same pass
\* and another one in a later pass
C8_Witness ==
    /\ pc = "done"
    /\ nodes = <<FailingNode, N2, N1>>
    /\ ErrorName(FailingNode) \in DOMAIN parcels
    /\ Plain("b") \in DOMAIN parcels
    /\ Plain("c") \in DOMAIN parcels

(***************************************************************************)
(* C9  Deadlock termination: when no node has its requirements matched by  *)
(* the seeded store, the call ends after exactly one pass with clean       *)
(* completion and returns the seed unchanged.                              *)
(***************************************************************************)
\* the store right after seeding
Seeded == [name \in DOMAIN initial_data |-> Parcel(name, initial_data[name], None)]

\* every required base of the node has an exact or an indexed unit
RequirementsMatched(node, store) ==
    \A k \in DOMAIN node.requires :
        \/ node.requires[k] \in DOMAIN store
        \/ \E name \in DOMAIN store : IsIndexedOf(name, node.requires[k])

NoNodeSatisfiable == \A k \in DOMAIN nodes : ~RequirementsMatched(nodes[k], Seeded)

\* C9: a call in which no node is satisfiable from the seed ends after one
\* pass, with the "complete" entry, no execution, and the seed as its store.
C9_DeadlockTermination ==
    (pc = "done" /\ NoNodeSatisfiable) =>
        /\ iteration = 1
        /\ parcels = Seeded
        /\ Positions("running") = {}
        /\ Positions("max_iterations") = {}
        /\ execution_log[Len(execution_log)] = LogComplete

\* a finished call with two nodes and a seed, none of the nodes satisfiable
C9_Witness ==
    /\ pc = "done"
    /\ NoNodeSatisfiable
    /\ Len(nodes) >= 2
    /\ DOMAIN initial_data # {}

(***************************************************************************)
(* C10  Fan-out completeness.                                              *)
(***************************************************************************)
\* nodes whose run with index i publishes out[i]
FanOutNodes ==
    {n \in Range(nodes) : n.cls \in {"SimpleNode", "ProcessItemNode"}}

\* the indices i with base[i] in the store
FamilyIndices(base, store) ==
    {ParseInt(name.ix)[1] :
        name \in {nm \in DOMAIN store : IsIndexedOf(nm, Plain(base)) /\ ParseInt(nm.ix) # None}}

\* the final store holds exactly the family base[0 .. N-1] for some N >= 1, and
\* no exact unit named base; the node publishes out[i] when run with index i
FanOutCase(n) ==
    LET base == n.requires[1].base
        F == FamilyIndices(base, parcels)
    IN  /\ Plain(base) \notin DOMAIN parcels
        /\ F # {}
        /\ F = 0 .. (Cardinality(F) - 1)
        /\ \A name \in DOMAIN parcels :
              IsIndexedOf(name, Plain(base)) => ParseInt(name.ix) # None
        /\ \A i \in F : Run(n, parcels, Some(i)).ok

\* executed exactly N times in the whole call, once with each index of the
\* family, and out[i] in the final store for each of them
FanOutComplete(n) ==
    LET F == FamilyIndices(n.requires[1].base, parcels) IN
    /\ \A i \in F :
          /\ Invocations(n, Some(i)) = 1
          /\ Indexed(n.outputs[1].base, i) \in DOMAIN parcels
    /\ Cardinality({k \in Positions("running") :
                       execution_log[k].node = NodeStr(n)}) = Cardinality(F)

\* no unit named out[i] was seeded or emitted by an invocation of another node
OutputsOwn(n) ==
    \A i \in FamilyIndices(n.requires[1].base, parcels) :
        LET name == Indexed(n.outputs[1].base, i) IN
        /\ name \notin DOMAIN initial_data
        /\ \A k \in Positions("running") :
              execution_log[k].node # NodeStr(n) => name \notin CreatedBy(k)

ExactAndIndexed(node, store) ==
    /\ Len(node.requires) = 1
    /\ node.requires[1] \in DOMAIN store
    /\ \E name \in DOMAIN store : IsIndexedOf(name, node.requires[1])

\* the nodes of the call whose base is seeded both ways, and none of whose
\* declared outputs is seeded
ExactSeededNodes ==
    {n \in Range(nodes) :
        /\ ExactAndIndexed(n, Seeded)
        /\ \A k \in DOMAIN n.outputs : n.outputs[k] \notin DOMAIN initial_data}

\* positions of the "running" entries of a node
RunningOf(node) == {k \in Positions("running") : execution_log[k].node = NodeStr(node)}

\* the base contributes no index, and the node is never run with an index
NeverFannedOut(n) ==
    /\ _get_indexed_matches(n.requires, parcels) = << >>
    /\ \A k \in RunningOf(n) : execution_log[k].index = None

IndicesInStore(requires, store) ==
    {i \in ParseRange :
        \E k \in DOMAIN requires :
            /\ requires[k] \notin DOMAIN store
            /\ Indexed(requires[k].base, i) \in DOMAIN store}

\* C12: for every store and every requires list, _get_indexed_matches returns
\* exactly the ascending, duplicate-free list of the integers i such that
\* base[i] is in the store for some required base without exact unit (the
\* empty list when there is none).
C12_FanOutSet ==
    pc = "matches" =>
        returned = Some(SortedSeq(IndicesInStore(nodes[1].requires, parcels)))

(***************************************************************************)
(* C13  Default node readiness.                                            *)
(***************************************************************************)
\* C13: BaseNode.can_run returns true iff for every required base name the
\* store holds the unit with exactly that name or an indexed unit base[i].
C13_DefaultReadiness ==
    pc = "can_run" =>
        (returned[1] <=> RequirementsMatched(nodes[1], parcels))

(***************************************************************************)
(* C14  No execution before requirements are met.                          *)
(***************************************************************************)
\* the names in the store when the log entry at position k was written: the
\* seeded names and the names created before k
NamesAt(k) == DOMAIN initial_data \cup CreatedIn(1, k)

\* every required base of the node has an exact or an indexed name in names
MatchedIn(node, names) ==
    \A j \in DOMAIN node.requires :
        \/ node.requires[j] \in names
        \/ \E name \in names : IsIndexedOf(name, node.requires[j])

\* C14: every execution of a node (each "running" entry of the current pass,
\* in every state) happens in a store in which each required base of the
\* node has an exact unit or an indexed unit.
C14_RequirementsMet ==
    iteration > 0 =>
        \A k \in LastPassRunning : MatchedIn(NodeOf(execution_log[k]), NamesAt(k))

\* the node with two requirements was not ready in pass 1, when only one of
\* them was matched, and was executed in a later pass, after both were
C14_Witness ==
    /\ pc = "done"
    /\ MultiInputNode \in Range(nodes)
    /\ Plain("b") \notin DOMAIN initial_data
    /\ \E k \in RunningOf(MultiInputNode) :
          \E p \in Positions("iteration") : execution_log[p].n = 2 /\ p < k
    /\ Plain("result") \in DOMAIN parcels

(***************************************************************************)
(* C15  Run once.                                                          *)
(***************************************************************************)
\* the node was executed, always without index, and each of its executions
\* published one of its declared plain outputs
PublishesWhenExecuted(n) ==
    /\ RunningOf(n) # {}
    /\ \A k \in RunningOf(n) : execution_log[k].index = None /\ PublishedDeclared(k)

\* one of the declared plain outputs of the node is in the store
PlainOutputExists(n, store) ==
    \E j \in DOMAIN n.outputs : IsPlain(n.outputs[j]) /\ n.outputs[j] \in DOMAIN store

ListPosition(entry) == CHOOSE p \in DOMAIN nodes : NodeStr(nodes[p]) = entry.node

\* C16: of two executions of one pass, the later one is of a node at the same
\* or a later list position; when both are of the same node, both carry an
\* index and the later one carries the greater index.
C16_ExecutionOrder ==
    iteration > 0 =>
        \A k1, k2 \in LastPassRunning :
            k1 < k2 =>
                LET e1 == execution_log[k1]
                    e2 == execution_log[k2]
                IN  /\ ListPosition(e1) <= ListPosition(e2)
                    /\ e1.node = e2.node =>
                          /\ e1.index # None
                          /\ e2.index # None
                          /\ e1.index[1] < e2.index[1]

\* a pass in which a node was executed for MaxItems indices and a node listed
\* after it was executed as well
C16_Witness ==
    /\ iteration > 0
    /\ \E k1, k2 \in LastPassRunning :
          /\ execution_log[k1].node # execution_log[k2].node
          /\ Cardinality({k \in LastPassRunning :
                             /\ execution_log[k].node = execution_log[k1].node
                             /\ execution_log[k].index # None}) = MaxItems
          /\ k1 < k2

(***************************************************************************)
(* C17  Immediate in-pass visibility.                                      *)
(***************************************************************************)
\* the chains n1: a -> b, n2: b -> c, n3: c -> d in dependency order
OrderedChains == {<<N1>>, <<N1, N2>>, <<N1, N2, N3>>}

\* position of the log entry that opens pass k
PassStart(k) == CHOOSE p \in DOMAIN execution_log : execution_log[p] = LogIteration(k)

\* C17: the readiness check of the node the engine has reached sees every unit
\* created so far, those of the current pass included; a chain listed in
\* dependency order with a seeded has every node executed and every output
\* produced in pass 1, and the call ends after pass 2.
C17_InPassVisibility ==
    /\ (pc = "for" /\ pos <= Len(nodes)) =>
          LET names == NamesAt(Len(execution_log)) IN
          /\ names = DOMAIN parcels
          /\ _can_node_run(nodes[pos], parcels) <=>
                 /\ MatchedIn(nodes[pos], names)
                 /\ \A j \in DOMAIN nodes[pos].outputs :
                       IsPlain(nodes[pos].outputs[j]) => nodes[pos].outputs[j] \notin names
    /\ (pc = "done" /\ nodes \in OrderedChains /\ Plain("a") \in DOMAIN initial_data) =>
          /\ iteration = 2
          /\ \A k \in DOMAIN nodes :
                /\ nodes[k].outputs[1] \in DOMAIN parcels
                /\ Cardinality(RunningOf(nodes[k])) = 1
                /\ \A r \in RunningOf(nodes[k]) : r < PassStart(2)
                /\ nodes[k].outputs[1] \in CreatedIn(PassStart(1), PassStart(2))

\* the chain of three nodes in dependency order: d, two steps from the seed,
\* is in the store after a call of two passes
C17_Witness ==
    /\ pc = "done"
    /\ nodes = <<N1, N2, N3>>
    /\ Plain("a") \in DOMAIN initial_data
    /\ Plain("d") \in DOMAIN parcels
    /\ iteration = 2

(***************************************************************************)
(* C18  Empty family.                                                      *)
(***************************************************************************)
\* a finished call of spread, map and collect (in any order, with or without
\* the response node) on the empty list
EmptyFamilyCase ==
    /\ pc = "done"
    /\ {Spread, Process, Collect} \subseteq Range(nodes)
    /\ initial_data = Data1(Plain("items"), ItemList(0))

\* C18: spreading the empty list inserts the metadata unit with length 0 and
\* no indexed unit; the map node is never executed; the collector is executed
\* and result, the empty list, is in the final store.
C18_EmptyFamily ==
    EmptyFamilyCase =>
        /\ \A k \in RunningOf(Spread) : CreatedBy(k) = {Plain("item_meta")}
        /\ Cardinality(RunningOf(Spread)) = 1
        /\ Plain("item_meta") \in DOMAIN parcels
        /\ parcels[Plain("item_meta")].value = MetaDict(0, << >>, "item")
        /\ \A name \in DOMAIN parcels : ~IsIndexedOf(name, Plain("item"))
        /\ RunningOf(Process) = {}
        /\ Cardinality(RunningOf(Collect)) = 1
        /\ Plain("result") \in DOMAIN parcels
        /\ parcels[Plain("result")].value = List(<< >>)
        /\ parcels[Plain("result")].node_id = Some(Collect.node_id)

\* the empty list was spread and collected, the collector listed first
C18_Witness ==
    /\ EmptyFamilyCase
    /\ nodes[1] = Collect
    /\ Plain("result") \in DOMAIN parcels
    /\ iteration = 3

(***************************************************************************)
(* C19  Seeding.                                                           *)
(***************************************************************************)
\* the store holds exactly the names of the initial mapping, each with its
\* initial value and no producer
HoldsExactlyTheSeed(store) ==
    /\ DOMAIN store = DOMAIN initial_data
    /\ \A name \in DOMAIN store :
          /\ store[name].name = name
          /\ store[name].value = initial_data[name]
          /\ store[name].node_id = None

\* C19: right after the seeding step (before the first pass) the store holds
\* exactly the seed; a call with an empty node list makes one pass and returns
\* exactly that store.
C19_Seeding ==
    /\ (pc = "while" /\ iteration = 0) => HoldsExactlyTheSeed(parcels)
    /\ (pc = "done" /\ nodes = << >>) =>
          /\ iteration = 1
          /\ Positions("running") = {}
          /\ returned # None
          /\ HoldsExactlyTheSeed(returned[1])

\* a call with an empty node list and a non-empty seed has returned
C19_Witness ==
    /\ pc = "done"
    /\ nodes = << >>
    /\ DOMAIN initial_data # {}
    /\ returned = Some(parcels)

(***************************************************************************)
(* C20  Run isolation.                                                     *)
(***************************************************************************)
\* a call is under way on an engine that has returned from an earlier call
LaterCall == returned # None /\ pc \in {"while", "for", "exit"}

\* C20: a later call on the same engine starts from the store that holds only
\* its own seed and from the log with only its two opening entries; when it
\* leaves its loop, every unit of its store was seeded or created by it, so
\* no unit that only the earlier call had is there; and no step of the later
\* call changes the dict the earlier call returned.
C20_RunIsolation ==
    /\ []((LaterCall /\ pc = "while" /\ iteration = 0) =>
             /\ HoldsExactlyTheSeed(parcels)
             /\ execution_log = <<LogStarting(Len(nodes)), LogInitial(DOMAIN initial_data)>>)
    /\ []((LaterCall /\ pc = "exit") =>
             /\ DOMAIN parcels = NamesAt(Len(execution_log))
             /\ \A name \in DOMAIN returned[1] \ NamesAt(Len(execution_log)) :
                   name \notin DOMAIN parcels
             /\ \A name \in DOMAIN parcels :
                   \/ parcels[name].node_id = None /\ name \in DOMAIN initial_data
                   \/ \E k \in DOMAIN nodes : parcels[name].node_id = Some(nodes[k].node_id))
    /\ [][(returned # None /\ pc' # "done") => returned' = returned]_vars

\* a later call has left its loop while the caller still holds the store of
\* the earlier call, which has a unit the later call does not have
C20_Witness ==
    /\ LaterCall
    /\ pc = "exit"
    /\ DOMAIN parcels # {}
    /\ \E name \in DOMAIN returned[1] : name \notin DOMAIN parcels

(***************************************************************************)
(* C21  Producer provenance.                                               *)
(***************************************************************************)
\* C21: in every reachable store, a unit whose name was seeded has no
\* producer and its initial value, and every other unit has as producer the
\* node_id of a node of the list one of whose executions emitted that name.
C21_ProducerProvenance ==
    \A name \in DOMAIN parcels :
        IF name \in DOMAIN initial_data
        THEN /\ parcels[name].node_id = None
             /\ parcels[name].value = initial_data[name]
        ELSE \E k \in Positions("running") :
                /\ name \in CreatedBy(k)
                /\ parcels[name].node_id = Some(NodeOf(execution_log[k]).node_id)

(***************************************************************************)
(* C22  Aggregation order.                                                 *)
(***************************************************************************)
\* the indices below the announced length whose unit is in the store
CollectedIndices(node, store) ==
    {i \in 0 .. (GetLength(store[node.requires[1]].value) - 1) :
        Indexed(node.input_prefix, i) \in DOMAIN store}

\* the values of those units in ascending integer order of their indices
InIndexOrder(node, store) ==
    LET sorted == SortedSeq(CollectedIndices(node, store)) IN
    [k \in DOMAIN sorted |-> store[Indexed(node.input_prefix, sorted[k])].value]

\* C22: CollectNode.run returns, under its output name, the values of
\* input[0], ..., input[length-1] in ascending integer index order (the value
\* of input[i] at place i+1 when all are present), whatever the order in
\* which the units were put in the store.
C22_AggregationOrder ==
    pc = "collected" =>
        /\ returned[1] =
              Returns(<<Item(Plain(nodes[1].output_name),
                             List(InIndexOrder(nodes[1], parcels)))>>)
        /\ LET length == GetLength(parcels[nodes[1].requires[1]].value) IN
           CollectedIndices(nodes[1], parcels) = 0 .. (length - 1) =>
              /\ Len(returned[1].items[1].value.items) = length
              /\ \A i \in 0 .. (length - 1) :
                    returned[1].items[1].value.items[i + 1] = NumValue(i)

\* the units num[0], ..., num[LongLength-1] were inserted in descending order
\* (num[LongLength-1] first) and the call returned them all
C22_Witness ==
    /\ pc = "collected"
    /\ Len(execution_log) = LongLength
    /\ execution_log[1].name = Indexed("num", LongLength - 1)
    /\ Len(returned[1].items[1].value.items) = LongLength
    /\ returned[1].items[1].value.items[LongLength] = NumValue(LongLength - 1)

(***************************************************************************)
(* C23  Structural misuse becomes data.                                    *)
(***************************************************************************)
\* the execution logged at position k is of a ProcessItemNode, without index
\* or with an index i for which input_prefix[i] was not in the store
Misused(k) ==
    LET e == execution_log[k]
        n == NodeOf(e)
    IN  /\ n.cls = "ProcessItemNode"
        /\ \/ e.index = None
           \/ e.index # None /\ Indexed(n.input_prefix, e.index[1]) \notin NamesAt(k)

\* what such an execution leaves: only the unit error_<node_id>, which is in
\* the store as an error dict of that node, and none of the declared outputs
MisuseIsData(k) ==
    LET e == execution_log[k]
        n == NodeOf(e)
    IN  /\ CreatedBy(k) = {ErrorName(n)}
        /\ CreatedBy(k) \cap DeclaredFor(n, e.index) = {}
        /\ ErrorName(n) \in DOMAIN parcels
        /\ parcels[ErrorName(n)].node_id = Some(n.node_id)
        /\ parcels[ErrorName(n)].value \in
              {ErrorDict("ProcessItemNode requires an index to run", n.node_id),
               ErrorDict("Expected parcel not found", n.node_id)}

\* C23: an execution of a ProcessItemNode without index, or with an index
\* whose input unit is absent, publishes no declared output and puts the unit
\* error_<node_id> in the store; the call goes on and returns the store, with
\* that unit in it.
C23_MisuseBecomesData ==
    /\ [](iteration > 0 => \A k \in LastPassRunning : Misused(k) => MisuseIsData(k))
    /\ (\E k \in Positions("running") : Misused(k)) ~>
          (/\ pc = "done"
           /\ returned = Some(parcels)
           /\ \E k \in Positions("running") :
                 Misused(k) /\ ErrorName(NodeOf(execution_log[k])) \in DOMAIN parcels)

\* a call has returned in which the node was executed with an index whose
\* input unit was absent
C23_Witness ==
    /\ pc = "done"
    /\ \E k \in Positions("running") : Misused(k) /\ execution_log[k].index # None
    /\ ErrorName(Process) \in DOMAIN parcels

(***************************************************************************)
(* C24  Duplicate node ids.                                                *)
(***************************************************************************)
\* the list positions of the nodes that do not always raise
Succeeding == {p \in DOMAIN nodes : nodes[p].cls # "FailingNode"}

\* the node at position p has its declared outputs in the store, under its
\* node_id and with the value its run computes
OutputsInStore(p) ==
    LET n == nodes[p] IN
    \A k \in DOMAIN n.outputs :
        /\ n.outputs[k] \in DOMAIN parcels
        /\ parcels[n.outputs[k]].node_id = Some(n.node_id)
        /\ parcels[n.outputs[k]].value =
              IF n.cls = "RequestNode" THEN Str("Initial request received")
              ELSE Str(Upper(parcels[n.requires[1]].value.s))

\* the passes the list needs, from its dependencies alone: one pass more when
\* the first node reads what the second emits
PassesNeeded ==
    IF /\ Len(nodes[1].requires) > 0
       /\ nodes[1].requires[1] \in Range(nodes[2].outputs)
    THEN 2 ELSE 1

\* C24: in a list two of whose nodes may share a node_id (and a class), every
\* node that succeeds is executed exactly once and has its outputs in the
\* final store; the number of executions and of passes is what the
\* dependencies give, whatever the ids are.
C24_DuplicateNodeIds ==
    pc = "done" =>
        /\ \A p \in Succeeding : OutputsInStore(p)
        /\ \A p \in Succeeding :
              Cardinality(RunningOf(nodes[p])) =
                 Cardinality({q \in DOMAIN nodes : NodeStr(nodes[q]) = NodeStr(nodes[p])})
        /\ Succeeding = DOMAIN nodes =>
              /\ Cardinality(Positions("running")) = Len(nodes)
              /\ iteration = PassesNeeded + 1

\* two nodes of one class and one id; the second reads what the first emits
C24_Witness ==
    /\ pc = "done"
    /\ nodes = <<SimpleNode("same_id", "a", "b"), SimpleNode("same_id", "b", "c")>>
    /\ parcels[Plain("b")].node_id = Some("same_id")
    /\ parcels[Plain("c")].node_id = Some("same_id")
    /\ parcels[Plain("c")].value = Str("HELLO")

(***************************************************************************)
(* C25  Engine readiness.                                                  *)
(***************************************************************************)
\* the bases that have a unit in the store, exact or bracketed
BasesIn(store) == {name.base : name \in DOMAIN store}

\* the names of the plain (unindexed) units of the store
PlainUnits(store) == {name \in DOMAIN store : name.ix = NoIx}

\* C25: for every store and node, _can_node_run returns true iff every
\* required base has a unit in the store, exact or named base[...], and no
\* declared output name is the name of a plain unit of the store.
C25_EngineReadiness ==
    pc = "ready" =>
        (returned[1] <=>
            /\ \A k \in DOMAIN nodes[1].requires :
                  nodes[1].requires[k].base \in BasesIn(parcels)
            /\ Range(nodes[1].outputs) \cap PlainUnits(parcels) = {})

\* ready on indexed units alone, with an indexed unit of the output present
C25_Witness ==
    /\ pc = "ready"
    /\ returned = Some(TRUE)
    /\ nodes[1].requires = <<Plain("input"), Plain("b")>>
    /\ nodes[1].outputs = <<Plain("output"), Plain("other")>>
    /\ DOMAIN parcels = {Bracketed("input", "abc"), Indexed("b", 1), Indexed("output", 0)}

(***************************************************************************)
(* C26  Convergence of well-behaved node lists.                            *)
(***************************************************************************)
\* the execution logged at position k succeeded and emitted exactly its
\* declared output names: the plain names without index, out[i] with index i
WellBehaved(k) ==
    LET e == execution_log[k] IN
    /\ CreatedBy(k) = DeclaredFor(NodeOf(e), e.index)
    /\ CreatedBy(k) # {}

\* the distinct (node, index) pairs executed during the call
DistinctInvocations ==
    {<<execution_log[k].node, execution_log[k].index>> : k \in Positions("running")}

\* C26: when every execution of a call succeeded and emitted exactly its
\* declared output names, and the number of distinct (node, index)
\* executions plus one is below max_iterations, the call has ended by a pass
\* that ran nothing and not by the iteration bound, and the number of passes
\* is at most the number of distinct (node, index) executions plus one.
C26_Convergence ==
    (/\ pc = "done"
     /\ \A k \in Positions("running") : WellBehaved(k)
     /\ Cardinality(DistinctInvocations) + 1 < max_iterations)
    => /\ Positions("complete") # {}
       /\ Positions("max_iterations") = {}
       /\ nodes_ran = 0
       /\ iteration <= Cardinality(DistinctInvocations) + 1

\* the longest chain the bound leaves room for, listed in reverse order: one
\* execution per pass, and one idle pass
C26_Witness ==
    /\ pc = "done"
    /\ Len(nodes) = max_iterations - 2
    /\ \A k \in Positions("running") : WellBehaved(k)
    /\ Cardinality(DistinctInvocations) = max_iterations - 2
    /\ iteration = max_iterations - 1
    /\ Positions("complete") # {}

(***************************************************************************)
(* C27  An execution that publishes no declared output is repeated.        *)
(***************************************************************************)
\* the execution logged at position k emitted a unit and none of its declared
\* output names
Unpublished(k) ==
    LET e == execution_log[k] IN
    /\ CreatedBy(k) # {}
    /\ CreatedBy(k) \cap DeclaredFor(NodeOf(e), e.index) = {}

\* the pass in which the log entry at position k was written
PassOf(k) ==
    LET p == CHOOSE p \in Positions("iteration") :
                 /\ p < k
                 /\ \A q \in Positions("iteration") : q < k => q <= p
    IN  execution_log[p].n

\* the executions of the same (node, index) from position k on
Repetitions(k) == {j \in Positions("running") : j >= k /\ SameInvocation(j, k)}

\* C27 as claimed: an execution that emitted a unit and none of its declared
\* output names is repeated in every later pass, and the call runs all
\* max_iterations passes and ends with the warning.
C27_RepeatedToTheBound ==
    pc = "done" =>
        \A k \in Positions("running") :
            Unpublished(k) =>
                /\ Cardinality(Repetitions(k)) = iteration - PassOf(k) + 1
                /\ iteration = max_iterations
                /\ Positions("max_iterations") # {}

\* "running" entries of pass q
PassRunning(q) ==
    {k \in Positions("running") :
        /\ PassStart(q) < k
        /\ q < iteration => k < PassStart(q + 1)}

\* since the execution at position k, the store has gained none of the
\* declared output names of its node (plain, or out[i] for its index) and no
\* unit of one of its required bases
Undisturbed(k, store) ==
    LET e == execution_log[k]
        n == NodeOf(e)
        bases == {n.requires[j].base : j \in DOMAIN n.requires}
    IN  /\ DeclaredFor(n, None) \cap DOMAIN store = {}
        /\ DeclaredFor(n, e.index) \cap DOMAIN store = {}
        /\ {name \in DOMAIN store : name.base \in bases}
              = {name \in NamesAt(k) : name.base \in bases}

\* the step of the for loop taken now writes a "running" entry for the
\* (node, index) of the entry at position k
ExecutedNow(k) ==
    \E j \in (Len(execution_log) + 1) .. Len(execution_log') :
        /\ execution_log'[j].t = "running"
        /\ execution_log'[j].node = execution_log[k].node
        /\ execution_log'[j].index = execution_log[k].index

\* C27 as amended: an execution that emitted a unit and none of its declared
\* output names is repeated in the next pass when its node is reached, as long
\* as the store has gained none of those names and no unit of a required
\* base; a call in which that stays so runs all max_iterations passes, every
\* one of them with that execution, and ends with the warning and without the
\* completion entry.
C27_RepeatedWhileUndisturbed ==
    /\ [][(pc = "for" /\ pos <= Len(nodes) /\ iteration > 1) =>
            \A k \in PassRunning(iteration - 1) :
                (/\ execution_log[k].node = NodeStr(nodes[pos])
                 /\ Unpublished(k)
                 /\ Undisturbed(k, parcels)) => ExecutedNow(k)]_vars
    /\ [](pc = "done" =>
            \A k \in Positions("running") :
                (Unpublished(k) /\ Undisturbed(k, parcels)) =>
                    /\ Cardinality(Repetitions(k)) = iteration - PassOf(k) + 1
                    /\ iteration = max_iterations
                    /\ Positions("max_iterations") # {}
                    /\ Positions("complete") = {})

\* the node that emits "output" and declares "c" was executed in every pass
C27_Witness ==
    /\ pc = "done"
    /\ nodes = <<Renaming>>
    /\ iteration = max_iterations
    /\ Cardinality(Positions("running")) = max_iterations
    /\ \A k \in Positions("running") : Unpublished(k) /\ Undisturbed(k, parcels)
    /\ Positions("max_iterations") # {}

(***************************************************************************)
(* C28  Skip on any output.                                                *)
(***************************************************************************)
\* the invocations of a node: without index, or with an index of the model
InvocationIndices == {None} \cup {Some(i) : i \in 0 .. MaxItems}

\* one of the names the invocation is skipped on is in the store: a plain
\* declared output, or out[i] for its index
BlockedFor(n, index, store) ==
    (DeclaredFor(n, None) \cup DeclaredFor(n, index)) \cap DOMAIN store # {}

\* from a state in which an invocation is blocked, no step lets that node
\* produce a declared output of the invocation that is still missing
MissingNeverProduced ==
    \A p \in DOMAIN nodes : \A index \in InvocationIndices :
        BlockedFor(nodes[p], index, parcels) =>
            \A d \in DeclaredFor(nodes[p], index) \ DOMAIN parcels :
                d \in DOMAIN parcels' => parcels'[d].node_id # Some(nodes[p].node_id)

\* C28 as claimed: no invocation is executed while one of its node's declared
\* plain outputs, or out[i] for its index, is in the store, also when other
\* declared outputs are missing; the missing ones are never produced by that
\* node afterwards.
C28_SkipOnAnyOutput ==
    /\ [](iteration > 0 =>
            \A k \in LastPassRunning :
                (DeclaredFor(NodeOf(execution_log[k]), None)
                   \cup DeclaredFor(NodeOf(execution_log[k]), execution_log[k].index))
                \cap NamesAt(k) = {})
    /\ [][MissingNeverProduced]_vars

\* the names in the store when the entry at position j of the log after the
\* step is written
NamesBefore(j) ==
    DOMAIN parcels
    \cup {execution_log'[m].name :
            m \in {q \in (Len(execution_log) + 1) .. (j - 1) : execution_log'[q].t = "created"}}

\* the step for the node at pos: nothing is executed when a declared plain
\* output is in the store as the node is reached, and inside the fan-out no
\* index i is executed while out[i] of a declared output is in the store
SkippedOnAnyOutput ==
    (pc = "for" /\ pos <= Len(nodes)) =>
        LET n == nodes[pos] IN
        /\ DeclaredFor(n, None) \cap DOMAIN parcels # {} =>
              UNCHANGED <<parcels, execution_log>>
        /\ \A j \in (Len(execution_log) + 1) .. Len(execution_log') :
              execution_log'[j].t = "running" =>
                  DeclaredFor(n, execution_log'[j].index) \cap NamesBefore(j) = {}

\* C28 as amended: a node is skipped for a whole pass when any one of its
\* declared plain outputs is in the store as the node is reached, and index i
\* is skipped when out[i] exists for any one declared output, also when other
\* declared outputs are missing; the missing ones are never produced by that
\* node afterwards.  (A plain output emitted in the middle of a fan-out does
\* not stop the remaining indices of that pass.)
C28_SkippedWhenReached ==
    /\ [][SkippedOnAnyOutput]_vars
    /\ [][MissingNeverProduced]_vars

\* the node that declares "output" and "other" was executed once, emitted
\* "output", and was skipped in the next pass with "other" missing
C28_Witness ==
    /\ pc = "done"
    /\ nodes = <<MultiOut>>
    /\ iteration = 2
    /\ Cardinality(Positions("running")) = 1
    /\ Plain("output") \in DOMAIN parcels
    /\ Plain("other") \notin DOMAIN parcels

(***************************************************************************)
(* C29  A clean fixed point is quiescent.                                  *)
(***************************************************************************)
\* the invocations the engine derives for a node from a store: one per index
\* of its fan-out set, or the one without index when that set is empty
InvocationsIn(n, store) ==
    IF IndexSet(n.requires, store) = {} THEN {None}
    ELSE {Some(i) : i \in IndexSet(n.requires, store)}

\* the requirements of the node are all matched, and for one of its
\* invocations the store holds none of the declared output names the
\* invocation is skipped on
Pending(n, store) ==
    /\ \A k \in DOMAIN n.requires : n.requires[k].base \in BasesIn(store)
    /\ \E index \in InvocationsIn(n, store) : ~BlockedFor(n, index, store)

\* C29: when the call has returned after a pass that ran no node, and every
\* execution emitted at least one unit, the final store leaves no node with
\* all requirements matched and an invocation (without index, or for an index
\* of its fan-out set) none of whose declared outputs exists: no plain
\* declared name, which would block the whole node, and no out[i] for its
\* index i.
C29_QuiescentFixedPoint ==
    (/\ pc = "done"
     /\ Positions("complete") # {}
     /\ \A k \in Positions("running") : CreatedBy(k) # {})
    => \A p \in DOMAIN nodes : ~Pending(nodes[p], returned[1])

\* a chain listed in reverse order has reached its fixed point: both nodes
\* have their requirement and their output in the returned store
C29_Witness ==
    /\ pc = "done"
    /\ Positions("complete") # {}
    /\ nodes = <<N2, N1>>
    /\ iteration = 3
    /\ {Plain("a"), Plain("b"), Plain("c")} \subseteq DOMAIN returned[1]
    /\ \A p \in DOMAIN nodes : ~Pending(nodes[p], returned[1])

(***************************************************************************)
(* C30  Union fan-out.                                                     *)
(***************************************************************************)
\* the indices of the seeded family of a base
SeededIndices(base) == {i \in 0 .. MaxItems : Indexed(base, i) \in DOMAIN initial_data}

\* both required bases have a seeded family
BothFamilies == SeededIndices("a") # {} /\ SeededIndices("b") # {}

\* the indices the node was executed for during pass q
ExecutedIn(q) == {execution_log[k].index[1] : k \in PassRunning(q)}

\* what the execution logged at position k emitted: out[i] from the input
\* a[i] when the node reads a[i] and a[i] is there, the error unit otherwise
EmittedAsExpected(k) ==
    LET e == execution_log[k]
        n == NodeOf(e)
        i == e.index[1]
    IN  IF n = Pair /\ Indexed("a", i) \in DOMAIN initial_data
        THEN /\ CreatedBy(k) = {Indexed("out", i)}
             /\ parcels[Indexed("out", i)].value = Str(Upper(initial_data[Indexed("a", i)].s))
             /\ parcels[Indexed("out", i)].node_id = Some(n.node_id)
        ELSE /\ CreatedBy(k) = {ErrorName(n)}
             /\ parcels[ErrorName(n)].value = ErrorDict("KeyError", n.node_id)

\* C30: a node that requires the bases a and b, over families with different
\* index sets, is executed in the first pass once for every index of the
\* union of the two sets and never without index; an execution for an index
\* whose input is absent emits the error unit and the call goes on and
\* returns; the executions for indices whose input is there publish out[i].
C30_UnionFanOut ==
    /\ (pc = "done" /\ BothFamilies) =>
          /\ \A k \in Positions("running") : execution_log[k].index # None
          /\ ExecutedIn(1) = SeededIndices("a") \cup SeededIndices("b")
          /\ returned = Some(parcels)
          /\ nodes[1] = Pair =>
                \A i \in SeededIndices("a") : Indexed("out", i) \in DOMAIN parcels
    /\ (pc = "for" /\ pos > Len(nodes)) =>
          \A k \in (LastPassStart + 1) .. Len(execution_log) :
              execution_log[k].t = "running" =>
                  execution_log[k].index # None /\ EmittedAsExpected(k)
    /\ (pc = "done" /\ ~BothFamilies) => Positions("running") = {}

\* a[0] and b[0], b[1]: index 0 published out[0], index 1 ended as the error
\* unit, and the call returned
C30_Witness ==
    /\ pc = "done"
    /\ nodes[1] = Pair
    /\ SeededIndices("a") = {0}
    /\ SeededIndices("b") = {0, 1}
    /\ ExecutedIn(1) = {0, 1}
    /\ Indexed("out", 0) \in DOMAIN parcels
    /\ Indexed("out", 1) \notin DOMAIN parcels
    /\ ErrorName(Pair) \in DOMAIN parcels

(***************************************************************************)
(* C31  Late family members.                                               *)
(***************************************************************************)
\* a node that was executed per index only, every execution publishing
\* exactly out[i], and none of whose required bases has an exact unit
FannedOut(n) ==
    /\ RunningOf(n) # {}
    /\ \A k \in RunningOf(n) : execution_log[k].index # None /\ WellBehaved(k)
    /\ \A j \in DOMAIN n.requires : n.requires[j] \notin DOMAIN parcels

FromElsewhere(n, i) ==
    \E d \in DeclaredFor(n, Some(i)) :
        \/ d \in DOMAIN initial_data
        \/ \E k \in Positions("running") :
              execution_log[k].node # NodeStr(n) /\ d \in CreatedBy(k)

\* a node whose requirements are matched by families only, that is not blocked
\* by a plain declared output, and whose executions all published out[i]
FanOutNode(n) ==
    /\ n.requires # << >>
    /\ \A j \in DOMAIN n.requires :
          n.requires[j] \notin DOMAIN parcels /\ n.requires[j].base \in BasesIn(parcels)
    /\ DeclaredFor(n, None) \cap DOMAIN parcels = {}
    /\ \A k \in RunningOf(n) : execution_log[k].index # None /\ WellBehaved(k)

AllExact(n) ==
    /\ n.requires # << >>
    /\ \A j \in DOMAIN n.requires : n.requires[j] \in DOMAIN parcels

\* the node has been executed with an index
WasFannedOut(n) == \E k \in RunningOf(n) : execution_log[k].index # None

\* the "running" entries the step appends to the log
NewRunning ==
    {j \in (Len(execution_log) + 1) .. Len(execution_log') : execution_log'[j].t = "running"}

\* C32: when the engine reaches a node whose required bases all have their
\* exact unit in the store, it never executes the node with an index, whatever
\* indexed units the store holds; and when that node was executed per index in
\* an earlier pass (the exact unit arrived after it) and none of its plain
\* declared outputs is in the store, the step executes it exactly once,
\* without index.  (Whether that execution is repeated in the passes after it
\* is decided by the plain output alone, as for every execution without
\* index.)
C32_ModeSwitch ==
    [][(pc = "for" /\ pos <= Len(nodes) /\ AllExact(nodes[pos])) =>
          /\ \A j \in NewRunning :
                /\ execution_log'[j].node = NodeStr(nodes[pos])
                /\ execution_log'[j].index = None
          /\ (WasFannedOut(nodes[pos]) /\ DeclaredFor(nodes[pos], None) \cap DOMAIN parcels = {})
                => Cardinality(NewRunning) = 1]_vars

\* a call in which process is executed for item[0] and item[1] in pass 1, the
\* node x emits item after it, and pass 2 executes process once without index
\* although the feeder has added item[2]
C32_Witness ==
    /\ pc = "done"
    /\ nodes = <<SimpleNode("process", "item", "processed"), Feeder, Exact>>
    /\ DOMAIN initial_data = {Indexed("item", 0), Indexed("item", 1), Indexed("b", 2), Plain("a")}
    /\ {<<execution_log[k].index, PassOf(k)>> : k \in RunningOf(nodes[1])}
          = {<<Some(0), 1>>, <<Some(1), 1>>, <<None, 2>>}
    /\ Indexed("item", 2) \in DOMAIN parcels
    /\ Plain("processed") \in DOMAIN parcels
    /\ Indexed("processed", 2) \notin DOMAIN parcels


(***************************************************************************)
(* C33  the store only grows during a call                                 *)
(***************************************************************************)
\* C33: no step of a call removes a name from the store; and when the call
\* has returned, every seeded name and every name a "created" entry of the
\* log records is a key of the returned store.
C33_AppendOnlyStore ==
    /\ [][pc \notin {"idle", "done"} => DOMAIN parcels \subseteq DOMAIN parcels']_vars
    /\ [](pc = "done" =>
             /\ returned # None
             /\ DOMAIN initial_data \cup CreatedIn(1, Len(execution_log))
                   \subseteq DOMAIN returned[1])

\* a call that ran to the bound: the error unit of the failing node was
\* written in every pass, b and c were produced in pass 1, and the returned
\* store holds the two seeds and these three names
C33_Witness ==
    /\ pc = "done"
    /\ nodes = <<FailingNode, N1, N2>>
    /\ DOMAIN initial_data = {Plain("input"), Plain("a")}
    /\ iteration = max_iterations
    /\ Cardinality({k \in Positions("created") :
                       execution_log[k].name = ErrorName(FailingNode)}) = max_iterations
    /\ DOMAIN returned[1]
          = {Plain("input"), Plain("a"), Plain("b"), Plain("c"), ErrorName(FailingNode)}


(***************************************************************************)
(* C34  the number of passes of a reversed chain                           *)
(***************************************************************************)
\* output i of the chain x0 -> x1 -> x2 -> ...
ChainOut(i) == Plain("x" \o IntToStr(i))

\* the call ran the reversed chain of n nodes on its seed x0
IsReversedChain(n) ==
    /\ nodes = ReversedChain(n).nodes
    /\ initial_data = ReversedChain(n).initial_data

\* the log positions of pass p: from its "iteration" entry to the next one
PassEnd(p) == IF p < iteration THEN PassStart(p + 1) ELSE Len(execution_log)

\* the names that pass p inserted for the first time
NewInPass(p) ==
    CreatedIn(PassStart(p), PassEnd(p))
        \ (DOMAIN initial_data \cup CreatedIn(1, PassStart(p)))

\* the chain outputs in the returned store
ChainOutputsReturned(n) == {i \in 1 .. n : ChainOut(i) \in DOMAIN returned[1]}

\* what C34 says of the units and of the final store, whatever the number of
\* passes: pass p, for p up to n and up to the last pass, inserts exactly one
\* new name, the output of node p of the chain; when n + 1 <= max_iterations
\* all n outputs are returned, when n >= max_iterations exactly the first
\* max_iterations outputs are
ChainUnits(n) ==
    /\ \A p \in 1 .. n : p <= iteration => NewInPass(p) = {ChainOut(p)}
    /\ n + 1 <= max_iterations => ChainOutputsReturned(n) = 1 .. n
    /\ n >= max_iterations => ChainOutputsReturned(n) = 1 .. max_iterations

\* C34 as claimed: a chain of n single-output nodes listed in reverse
\* dependency order, with its seed, produces exactly one new unit per pass
\* and takes exactly n + 1 passes; when n + 1 <= max_iterations all n outputs
\* are in the final store, when n >= max_iterations only the first
\* max_iterations outputs are.
C34_ReversedChainPasses ==
    pc = "done" =>
        /\ IsReversedChain(Len(nodes))
        /\ iteration = Len(nodes) + 1
        /\ ChainUnits(Len(nodes))

\* C34 as amended: the chain takes n + 1 passes when n + 1 <= max_iterations
\* and max_iterations passes otherwise; each of the first n passes that take
\* place produces exactly one new unit, the pass after the n-th produces
\* none; when n + 1 <= max_iterations all n outputs are in the final store,
\* when n >= max_iterations only the first max_iterations outputs are.
C34_ReversedChainBounded ==
    pc = "done" =>
        LET n == Len(nodes) IN
        /\ IsReversedChain(n)
        /\ iteration = IF n + 1 <= max_iterations THEN n + 1 ELSE max_iterations
        /\ iteration > n => NewInPass(n + 1) = {}
        /\ ChainUnits(n)

\* the chain of max_iterations + 1 nodes has returned after max_iterations
\* passes: output max_iterations is in the store, the last output is not
C34_Witness ==
    /\ pc = "done"
    /\ Len(nodes) = max_iterations + 1
    /\ IsReversedChain(max_iterations + 1)
    /\ iteration = max_iterations
    /\ ChainOut(max_iterations) \in DOMAIN returned[1]
    /\ ChainOut(max_iterations + 1) \notin DOMAIN returned[1]


(***************************************************************************)
(* C35  one error unit per node id                                         *)
(***************************************************************************)
\* the names of the store whose unit is the dict run_safe builds on a failure
ErrorUnits(store) ==
    {name \in DOMAIN store :
        /\ store[name].value.t = "dict"
        /\ "error" \in DOMAIN store[name].value}

\* the indices (None included) at which an execution of the node emitted its
\* error unit
FailedAt(n) ==
    {execution_log[k].index : k \in {j \in RunningOf(n) : ErrorName(n) \in CreatedBy(j)}}

\* C35: every error unit of the store is named error_<node_id>, without
\* index, for a node of the list, so the store holds at most as many error
\* units as the list has distinct node ids; and when the call has returned, a
\* node whose run failed at two or more indices has left exactly one error
\* unit, error_<node_id>.
C35_OneErrorUnitPerNodeId ==
    /\ ErrorUnits(parcels) \subseteq {ErrorName(nodes[p]) : p \in DOMAIN nodes}
    /\ Cardinality(ErrorUnits(parcels))
          <= Cardinality({nodes[p].node_id : p \in DOMAIN nodes})
    /\ pc = "done" =>
          \A p \in DOMAIN nodes :
              Cardinality(FailedAt(nodes[p])) >= 2 =>
                  {name \in ErrorUnits(parcels) :
                      parcels[name].value.node_id = nodes[p].node_id}
                      = {ErrorName(nodes[p])}

\* three nodes have failed, FailingNode at the indices 0 and 1, MultiInputNode
\* at 0, 1 and 2, the two-base node at 1 and 2, and the returned store holds
\* the three error units error_failing, error_multi and error_pair
C35_Witness ==
    /\ pc = "done"
    /\ nodes = <<FailingNode, MultiInputNode, Pair>>
    /\ FailedAt(FailingNode) = {Some(0), Some(1)}
    /\ FailedAt(MultiInputNode) = {Some(0), Some(1), Some(2)}
    /\ FailedAt(Pair) = {Some(1), Some(2)}
    /\ Indexed("out", 0) \in DOMAIN parcels
    /\ ErrorUnits(parcels) = {ErrorName(FailingNode), ErrorName(MultiInputNode), ErrorName(Pair)}

=============================================================================
